---- MODULE Spec2Model ----
(***************************************************************************)
(* Xget request handler (src/src/index.js handleRequest) and the Docker    *)
(* token negotiation (protocols/docker.js), as a state machine of one      *)
(* request.  Every `await` of the handler is a control point (pc); the     *)
(* code between two awaits is one action.  Upstream answers, thrown        *)
(* network errors and timer expiry are chosen nondeterministically.        *)
(*                                                                         *)
(* A URL path is the sequence of its segments: "/a/b" is <<"a","b">>,      *)
(* "/a/b/" is <<"a","b","">> and "/" is <<"">>.  A platform key is the     *)
(* sequence of its hyphen-separated parts: cr-docker is <<"cr","docker">>. *)
(***************************************************************************)
EXTENDS Integers, Sequences, FiniteSets, TLC

\* ------------------------------------------------------------------ bounds
\* Largest MAX_RETRIES an environment override sets in the explored runs.
MaxRetriesBound == 3

\* Number of requests one worker handles in a run.
MaxRequests == 2
MaxDepth == 1
\* Number of invocations of handleRequest that run side by side.
NumHandlers == 2

\* ------------------------------------------------------- program constants
DEFAULT_MAX_RETRIES == 3
DEFAULT_RETRY_DELAY_MS == 1000
DEFAULT_TIMEOUT_SECONDS == 30
DEFAULT_CACHE_DURATION == 1800
DEFAULT_MAX_PATH_LENGTH == 2048

\* ------------------------------------------------------------ createConfig
\* An environment variable: unset, or set to a string of characters.
Unset == [set |-> FALSE, str |-> <<>>]
EnvString(str) == [set |-> TRUE, str |-> str]

\* String(v): the string itself, "undefined" for an unset variable.
JSString(v) ==
  IF v.set THEN v.str ELSE <<"u", "n", "d", "e", "f", "i", "n", "e", "d">>

DigitChars == <<"0", "1", "2", "3", "4", "5", "6", "7", "8", "9">>

IsDigit(c) == \E i \in DOMAIN DigitChars : DigitChars[i] = c

DigitValue(c) == (CHOOSE i \in DOMAIN DigitChars : DigitChars[i] = c) - 1

\* The not-a-number result of parseInt.
NaN == [nan |-> TRUE, n |-> 0]

RECURSIVE SkipWhiteSpace(_)
SkipWhiteSpace(str) ==
  IF str # <<>> /\ Head(str) = " " THEN SkipWhiteSpace(Tail(str)) ELSE str

\* The value of the longest run of decimal digits str begins with, read
\* after the digits that gave acc.
RECURSIVE DigitRun(_, _)
DigitRun(str, acc) ==
  IF str # <<>> /\ IsDigit(Head(str))
  THEN DigitRun(Tail(str), 10 * acc + DigitValue(Head(str)))
  ELSE acc

\* parseInt(str, 10): leading white space is skipped, one sign is read,
\* then the longest run of digits; what follows the digits is ignored, and
\* without a digit the result is NaN.
parseInt(str) ==
  LET trimmed == SkipWhiteSpace(str)
      signed == trimmed # <<>> /\ Head(trimmed) \in {"-", "+"}
      rest == IF signed THEN Tail(trimmed) ELSE trimmed
      sign == IF signed /\ Head(trimmed) = "-" THEN -1 ELSE 1
  IN  IF rest # <<>> /\ IsDigit(Head(rest))
      THEN [nan |-> FALSE, n |-> sign * DigitRun(rest, 0)]
      ELSE NaN

\* x || fallback: NaN and 0 are falsy.
OrDefault(x, fallback) == IF x.nan \/ x.n = 0 THEN fallback ELSE x.n

Settings ==
  {"TIMEOUT_SECONDS", "MAX_RETRIES", "RETRY_DELAY_MS", "CACHE_DURATION",
   "MAX_PATH_LENGTH"}

Defaults ==
  [TIMEOUT_SECONDS |-> DEFAULT_TIMEOUT_SECONDS,
   MAX_RETRIES |-> DEFAULT_MAX_RETRIES,
   RETRY_DELAY_MS |-> DEFAULT_RETRY_DELAY_MS,
   CACHE_DURATION |-> DEFAULT_CACHE_DURATION,
   MAX_PATH_LENGTH |-> DEFAULT_MAX_PATH_LENGTH]

\* The integer settings of createConfig(env).
createConfig(env) ==
  [s \in Settings |-> OrDefault(parseInt(JSString(env[s])), Defaults[s])]

\* ------------------------------------------------------------ path helpers
\* String.prototype.startsWith('/' + pre.join('/') + '/')
StartsWithSegs(path, pre) ==
  /\ Len(path) > Len(pre)
  /\ SubSeq(path, 1, Len(pre)) = pre

\* String.prototype.endsWith('/' + suf.join('/'))
EndsWithSegs(path, suf) ==
  /\ Len(path) >= Len(suf)
  /\ SubSeq(path, Len(path) - Len(suf) + 1, Len(path)) = suf

\* String.prototype.includes('/' + seg + '/')
IncludesSeg(path, seg) == \E i \in 1..(Len(path) - 1) : path[i] = seg

\* -------------------------------------------------------------- platforms
SinglePartKeys ==
  {"gh", "gist", "gl", "gitea", "codeberg", "sf", "aosp", "hf", "civitai",
   "npm", "pypi", "conda", "maven", "apache", "gradle", "homebrew",
   "rubygems", "cran", "cpan", "ctan", "golang", "nuget", "crates",
   "packagist", "debian", "ubuntu", "fedora", "rocky", "opensuse", "arch",
   "arxiv", "fdroid", "jenkins"}

InferenceProviders ==
  {"openai", "anthropic", "gemini", "vertexai", "cohere", "mistralai", "xai",
   "githubmodels", "nvidiaapi", "perplexity", "braintrust", "groq",
   "cerebras", "sambanova", "siray", "huggingface", "together", "replicate",
   "fireworks", "nebius", "jina", "voyageai", "falai", "novita", "burncloud",
   "openrouter", "poe", "featherlessai", "hyperbolic"}

ContainerRegistries ==
  {"docker", "quay", "gcr", "mcr", "ecr", "ghcr", "gitlab", "redhat",
   "oracle", "cloudsmith", "digitalocean", "vmware", "k8s", "heroku", "suse",
   "opensuse", "gitpod"}

\* The keys of the PLATFORMS table.
PLATFORMS ==
  {<<k>> : k \in SinglePartKeys}
    \cup {<<"pypi", "files">>, <<"conda", "community">>,
          <<"homebrew", "api">>, <<"homebrew", "bottles">>}
    \cup {<<"ip", p>> : p \in InferenceProviders}
    \cup {<<"cr", r>> : r \in ContainerRegistries}

\* key.startsWith('cr-')
IsRegistryKey(key) == Len(key) >= 2 /\ key[1] = "cr"

\* Property names the PLATFORMS object literal inherits from
\* Object.prototype: PLATFORMS[name] is a function or an object, not a URL.
ObjectPrototypeKeys == {<<"constructor">>, <<"toString">>, <<"__proto__">>}

\* PLATFORMS[key] is truthy.
HasPlatform(key) == key \in PLATFORMS \cup ObjectPrototypeKeys

\* parts.join(sep)
RECURSIVE JoinParts(_, _)
JoinParts(parts, sep) ==
  IF Len(parts) = 0 THEN ""
  ELSE IF Len(parts) = 1 THEN parts[1]
  ELSE parts[1] \o sep \o JoinParts(Tail(parts), sep)

\* The key as the table writes it: cr-docker
KeyString(key) == JoinParts(key, "-")

\* key.replace('-', '/') replaces the first hyphen only.
ExpectedPrefix(key) ==
  IF Len(key) <= 2 THEN key ELSE <<key[1], JoinParts(Tail(key), "-")>>

\* Fault: the table is sorted shortest prefix first.
PrefixLengthAscending(key) == 0 - Len(KeyString(key))

\* `/${key.replace('-', '/')}/`.length, the sort key of SORTED_PLATFORMS
PrefixLength(key) == Len(KeyString(key)) + 2

\* SORTED_PLATFORMS.find(key => effectivePath.startsWith(expectedPrefix)):
\* the keys are sorted by the length of their prefix, longest first, so the
\* first match is a matching key of greatest prefix length.  <<>> stands
\* for "no key matched".
FindPlatform(effectivePath) ==
  LET matching == {k \in PLATFORMS :
                     StartsWithSegs(effectivePath, ExpectedPrefix(k))}
  IN  IF matching = {} THEN <<>>
      ELSE CHOOSE k \in matching :
             \A j \in matching : PrefixLength(j) <= PrefixLength(k)

\* The property of PLATFORMS a string names: the key it spells, or the
\* string itself as a key of one part.
KeyOfString(str) ==
  LET spelled == {k \in PLATFORMS \cup ObjectPrototypeKeys : KeyString(k) = str}
  IN  IF spelled # {} THEN CHOOSE k \in spelled : TRUE ELSE <<str>>

\* ... || effectivePath.split('/')[1]: the first segment taken as a key.
DetectPlatform(effectivePath) ==
  LET found == FindPlatform(effectivePath)
  IN  IF found # <<>> THEN found
      ELSE IF Len(effectivePath) >= 1 /\ effectivePath[1] # ""
           THEN KeyOfString(effectivePath[1])
           ELSE <<>>

\* ----------------------------------------------------------- transformPath
\* Path segments that begin with '?': transformPath is also given paths
\* that carry a query string.
QuerySegments == {"?q=tokio"}

\* Fault: the leading segments are removed whatever they are.
StripPrefixUnchecked(path, platformKey) ==
  IF Len(path) > Len(platformKey)
  THEN SubSeq(path, Len(platformKey) + 1, Len(path))
  ELSE path

\* path.replace(new RegExp(`^${prefix}`), '/') with
\* prefix = `/${platformKey.replace(/-/g, '/')}/`
StripPrefix(path, platformKey) ==
  IF StartsWithSegs(path, platformKey)
  THEN SubSeq(path, Len(platformKey) + 1, Len(path))
  ELSE path

\* transformPath.  Every path here starts with '/', so the tests
\* transformedPath.startsWith('/') are true.
transformPath(path, platformKey) ==
  IF ~HasPlatform(platformKey) THEN path
  ELSE LET transformedPath == StripPrefix(path, platformKey)
       IN  IF platformKey = <<"crates">>
           THEN IF \/ transformedPath = <<"">>
                   \/ transformedPath[1] \in QuerySegments
                THEN <<"api", "v1", "crates" \o transformedPath[1]>>
                       \o Tail(transformedPath)
                ELSE <<"api", "v1", "crates">> \o transformedPath
           ELSE IF platformKey = <<"jenkins">>
           THEN IF transformedPath = <<"update-center.json">>
                THEN <<"current", "update-center.json">>
                ELSE IF transformedPath = <<"update-center.actual.json">>
                THEN <<"current", "update-center.actual.json">>
                ELSE IF \/ StartsWithSegs(transformedPath, <<"experimental">>)
                        \/ StartsWithSegs(transformedPath, <<"download">>)
                        \/ StartsWithSegs(transformedPath, <<"current">>)
                THEN transformedPath
                ELSE <<"current">> \o transformedPath
           ELSE transformedPath

\* ------------------------------------------------- protocol classification
\* A request is [method, path, search, authorization, cookie,
\* proxyAuthorization, range, userAgent, accept, contentType, service,
\* scope, pathDefect]; path is url.pathname and search is url.search; a
\* header is the string sent ("" when absent) or, where only its presence
\* matters, a boolean; service and scope are query parameters.
DockerUserAgents == {"docker/24.0.5"}
GitUserAgents == {"git/2.39.0"}
LfsUserAgents == {"git-lfs/3.0.0"}
DockerManifestTypes ==
  {"application/vnd.docker.distribution.manifest.v2+json",
   "application/vnd.oci.image.manifest.v1+json"}
DockerLayerTypes == {"application/vnd.docker.image.rootfs.diff.tar.gzip"}
GitPackTypes ==
  {"application/x-git-upload-pack-request",
   "application/x-git-receive-pack-request"}
LfsTypes == {"application/vnd.git-lfs+json"}
JsonTypes == {"application/json"}

isDockerRequest(request) ==
  \/ IncludesSeg(request.path, "v2")
  \/ request.path = <<"v2">>
  \/ request.userAgent \in DockerUserAgents
  \/ request.accept \in DockerManifestTypes \cup DockerLayerTypes
  \/ request.contentType \in DockerManifestTypes

isGitRequest(request) ==
  IF EndsWithSegs(request.path, <<"info", "refs">>) THEN TRUE
  ELSE IF \/ EndsWithSegs(request.path, <<"git-upload-pack">>)
          \/ EndsWithSegs(request.path, <<"git-receive-pack">>) THEN TRUE
  ELSE IF request.userAgent \in GitUserAgents THEN TRUE
  ELSE IF request.service # ""
       THEN request.service \in {"git-upload-pack", "git-receive-pack"}
  ELSE request.contentType \in GitPackTypes

\* /\/objects\/[a-fA-F0-9]{64}$/: the segment "sha256" stands for a 64-digit
\* hexadecimal object id.
isGitLFSRequest(request) ==
  \/ \E i \in 1..(Len(request.path) - 1) :
       request.path[i] = "info" /\ request.path[i + 1] = "lfs"
  \/ \E i \in 1..(Len(request.path) - 1) :
       request.path[i] = "objects" /\ request.path[i + 1] = "batch"
  \/ /\ Len(request.path) >= 2
     /\ request.path[Len(request.path) - 1] = "objects"
     /\ request.path[Len(request.path)] = "sha256"
  \/ request.accept \in LfsTypes
  \/ request.contentType \in LfsTypes
  \/ request.userAgent \in LfsUserAgents

\* url.pathname.includes(endpoint) for an endpoint of whole segments
IncludesRun(path, run) ==
  \E i \in 1..(Len(path) - Len(run) + 1) : SubSeq(path, i, i + Len(run) - 1) = run

aiEndpoints ==
  {<<"v1", "chat", "completions">>, <<"v1", "completions">>,
   <<"v1", "messages">>, <<"v1", "predictions">>, <<"v1", "generate">>,
   <<"v1", "embeddings">>, <<"openai", "v1", "chat", "completions">>}

isAIInferenceRequest(request) ==
  \/ StartsWithSegs(request.path, <<"ip">>)
  \/ \E e \in aiEndpoints : IncludesRun(request.path, e)
  \/ /\ request.contentType \in JsonTypes
     /\ request.method = "POST"
     /\ \/ IncludesSeg(request.path, "chat")
        \/ \E s \in {"completions", "generate", "predict"} :
             IncludesRun(request.path, <<s>>)

isHuggingFaceAPIRequest(request) ==
  \/ StartsWithSegs(request.path, <<"hf", "api">>)
  \/ Len(request.path) >= 2 /\ SubSeq(request.path, 1, 2) = <<"hf", "token">>

\* isGit || isGitLFS || isDocker || isAI || isHF
IsProtocol(request) ==
  \/ isGitRequest(request)
  \/ isGitLFSRequest(request)
  \/ isDockerRequest(request)
  \/ isAIInferenceRequest(request)
  \/ isHuggingFaceAPIRequest(request)

\* -------------------------------------------------------------- responses
\* A response is a record
\*   status  the HTTP status (0: the handler's `response` is still undefined)
\*   origin  who produced it: "upstream", "token" (a token service), "proxy"
\*   ctype   its Content-Type
\*   www     its WWW-Authenticate: "" absent, "valid" a Bearer challenge with
\*           realm and service, "invalid" one without, "proxy" the proxy's own
\*           Bearer realm="https://<host>/v2/auth",service="Xget"
\*   loc     it has a Location header
\*   cl      it has a Content-Length header
\*   body    what its body is
\*   msg, n  an error response's message and the attempt count it names
\*   wraps   the message of the response whose text it quotes
\*   sec     it carries the security headers
\*   perf    it carries X-Performance-Metrics
Resp(status, origin, ctype, www, loc, cl, body, msg, n, wraps, sec, perf) ==
  [status |-> status, origin |-> origin, ctype |-> ctype, www |-> www,
   loc |-> loc, cl |-> cl, body |-> body, msg |-> msg, n |-> n,
   wraps |-> wraps, sec |-> sec, perf |-> perf]

Undefined == Resp(0, "", "", "", FALSE, FALSE, "", "", 0, "", FALSE, FALSE)

\* Response.ok
Ok(r) == r.status >= 200 /\ r.status <= 299

\* An upstream answer with the given status and headers.
Upstream(status, www, loc, cl) ==
  Resp(status, "upstream", "application/octet-stream", www, loc, cl, "data",
       "", 0, "", FALSE, FALSE)

\* An upstream answer that is an HTML page with links to
\* https://files.pythonhosted.org in it.
Html(status) ==
  [Upstream(status, "", FALSE, TRUE) EXCEPT
     !.ctype = "text/html", !.body = "links"]

\* A token service's answer: body is "token" ({"token": ...}), "notoken"
\* (JSON without a token) or "garbage" (not JSON).
TokenAnswer(status, body) ==
  Resp(status, "token", "application/json", "", FALSE, TRUE, body,
       "", 0, "", FALSE, FALSE)

addSecurityHeaders(r) == [r EXCEPT !.sec = TRUE]

createErrorResponse(msg, n, wraps, status, includeDetails) ==
  addSecurityHeaders(
    Resp(status, "proxy",
         IF includeDetails THEN "application/json" ELSE "text/plain",
         "", FALSE, FALSE, "error", msg, n, wraps, FALSE, FALSE))

\* new Response(JSON.stringify({errors: [{code: 'UNAUTHORIZED', ...}]}),
\* {status: 401, headers}) with headers holding WWW-Authenticate alone: the
\* Response constructor gives a string body the Content-Type
\* text/plain;charset=UTF-8 when the headers name none.
responseUnauthorized ==
  Resp(401, "proxy", "text/plain;charset=UTF-8", "proxy", FALSE, FALSE,
       "UNAUTHORIZED", "authentication required", 0, "", FALSE, FALSE)

\* Response.redirect(HOME_PAGE_URL, 302)
HomeRedirect ==
  Resp(302, "proxy", "", "", TRUE, FALSE, "", "home", 0, "", FALSE, FALSE)

addPerformanceHeaders(r) == addSecurityHeaders([r EXCEPT !.perf = TRUE])

\* Fault: a protocol request's methods are the configured ones and four more.
validateRequestWidening(request, config) ==
  LET allowedMethods ==
        IF IsProtocol(request)
        THEN config.ALLOWED_METHODS \cup {"POST", "PUT", "PATCH", "DELETE"}
        ELSE config.ALLOWED_METHODS
  IN  IF request.method \notin allowedMethods
      THEN [valid |-> FALSE, error |-> "Method not allowed", status |-> 405]
      ELSE IF request.pathDefect = "too_long"
      THEN [valid |-> FALSE, error |-> "Path too long", status |-> 414]
      ELSE IF request.pathDefect = "traversal"
      THEN [valid |-> FALSE, error |-> "Invalid path", status |-> 400]
      ELSE [valid |-> TRUE, error |-> "", status |-> 200]

\* ------------------------------------------------------------ validation
\* validateRequest: pathDefect is "too_long" when url.pathname is longer than
\* config.SECURITY.MAX_PATH_LENGTH and "traversal" when the raw or decoded
\* path holds a `..` segment or a control character.
validateRequest(request, config) ==
  LET allowedMethods ==
        IF IsProtocol(request)
        THEN {"GET", "HEAD", "POST", "PUT", "PATCH", "DELETE"}
        ELSE config.ALLOWED_METHODS
  IN  IF request.method \notin allowedMethods
      THEN [valid |-> FALSE, error |-> "Method not allowed", status |-> 405]
      ELSE IF request.pathDefect = "too_long"
      THEN [valid |-> FALSE, error |-> "Path too long", status |-> 414]
      ELSE IF request.pathDefect = "traversal"
      THEN [valid |-> FALSE, error |-> "Invalid path", status |-> 400]
      ELSE [valid |-> TRUE, error |-> "", status |-> 200]

\* -------------------------------------------------- Docker token negotiation
\* A scope query parameter is [present, parts]: parts is the value split at
\* ':', each part split at '/' ("repository:cr/docker/a:pull" is
\* << <<"repository">>, <<"cr","docker","a">>, <<"pull">> >>; the empty
\* string is << <<"">> >>).
NoScope == [present |-> FALSE, parts |-> <<>>]
ScopeOf(parts) == [present |-> TRUE, parts |-> parts]

\* Fault: the check of the number of parts is left out.
AuthScopeCheckNoLength(request) ==
  LET scope == request.scope
      parts == scope.parts
  IN  IF ~scope.present \/ parts = << <<"">> >>
      THEN [ok |-> FALSE, error |-> "Missing scope parameter", key |-> <<>>]
      ELSE IF parts[1] # <<"repository">>
      THEN [ok |-> FALSE, error |-> "Invalid scope format", key |-> <<>>]
      ELSE LET hits == {k \in PLATFORMS :
                          IsRegistryKey(k) /\ StartsWithSegs(parts[2], k)}
           IN  IF hits = {}
               THEN [ok |-> FALSE,
                     error |-> "Unsupported registry platform in scope",
                     key |-> <<>>]
               ELSE [ok |-> TRUE, error |-> "", key |-> CHOOSE k \in hits : TRUE]

\* handleDockerAuth, up to its first fetch: the 400 it answers, or the
\* registry key whose /v2/ root it is about to fetch.
AuthScopeCheck(request) ==
  LET scope == request.scope
      parts == scope.parts
  IN  IF ~scope.present \/ parts = << <<"">> >>
      THEN [ok |-> FALSE, error |-> "Missing scope parameter", key |-> <<>>]
      ELSE IF Len(parts) < 3 \/ parts[1] # <<"repository">>
      THEN [ok |-> FALSE, error |-> "Invalid scope format", key |-> <<>>]
      ELSE LET fullRepoPath == parts[2]
               hits == {k \in PLATFORMS :
                          IsRegistryKey(k) /\ StartsWithSegs(fullRepoPath, k)}
           IN  IF hits = {}
               THEN [ok |-> FALSE,
                     error |-> "Unsupported registry platform in scope",
                     key |-> <<>>]
               ELSE [ok |-> TRUE, error |-> "", key |-> CHOOSE k \in hits : TRUE]

\* parseAuthenticate: both realm="..." and service="..." must match.
parseAuthenticate(www) == [ok |-> (www = "valid")]

\* ['manifests', 'blobs', 'tags', 'referrers']
RepoSuffixes == {"manifests", "blobs", "tags", "referrers"}

\* Fault: without a suffix part there is no repository name.
RepoNameSuffixOnly(repoParts) ==
  LET hits == {i \in DOMAIN repoParts : repoParts[i] \in RepoSuffixes}
  IN  IF hits = {} THEN <<>>
      ELSE SubSeq(repoParts, 1,
                  (CHOOSE i \in hits : \A j \in hits : i <= j) - 1)

\* repoParts.slice(0, suffixIndex), or repoParts when no part is a suffix
RepoName(repoParts) ==
  LET hits == {i \in DOMAIN repoParts : repoParts[i] \in RepoSuffixes}
  IN  IF hits = {} THEN repoParts
      ELSE SubSeq(repoParts, 1,
                  (CHOOSE i \in hits : \A j \in hits : i <= j) - 1)

\* Fault: a single name is prefixed with library/ on every registry.
getScopeFromUrlAlwaysLibrary(path, effectivePath, platform) ==
  IF \E i \in DOMAIN path : path[i] = "_catalog"
  THEN << <<"registry">>, <<"catalog">>, <<"*">> >>
  ELSE IF Len(path) >= 3 /\ path[1] = "v2"
          /\ StartsWithSegs(effectivePath, platform)
  THEN LET repoName ==
             RepoName(SubSeq(effectivePath, Len(platform) + 1,
                             Len(effectivePath)))
       IN  IF repoName \in {<<>>, <<"">>} THEN <<>>
           ELSE IF Len(repoName) = 1
           THEN << <<"repository">>, <<"library">> \o repoName, <<"pull">> >>
           ELSE << <<"repository">>, repoName, <<"pull">> >>
  ELSE <<>>

\* getScopeFromUrl(url, effectivePath, platform), with url.pathname = path.
\* A scope is the sequence of its ':'-separated parts, each the sequence of
\* its '/'-separated segments; <<>> is the empty string.
getScopeFromUrl(path, effectivePath, platform) ==
  IF \E i \in DOMAIN path : path[i] = "_catalog"
  THEN << <<"registry">>, <<"catalog">>, <<"*">> >>
  ELSE IF Len(path) >= 3 /\ path[1] = "v2"
          /\ StartsWithSegs(effectivePath, platform)
  THEN LET repoName ==
             RepoName(SubSeq(effectivePath, Len(platform) + 1,
                             Len(effectivePath)))
       IN  IF repoName \in {<<>>, <<"">>} THEN <<>>
           ELSE IF platform = <<"cr", "docker">> /\ Len(repoName) = 1
           THEN << <<"repository">>, <<"library">> \o repoName, <<"pull">> >>
           ELSE << <<"repository">>, repoName, <<"pull">> >>
  ELSE <<>>

\* --------------------------------------------------------------- routing
\* url.pathname.replace(/^\/v2/, '') of a path that passed the /cr/ check
EffectivePath(request) ==
  IF isDockerRequest(request) /\ Len(request.path) >= 1 /\ request.path[1] = "v2"
  THEN Tail(request.path)
  ELSE request.path

\* What handleRequest does before any I/O: the response it returns at once
\* (a [kind |-> "respond", ...]), the /v2/auth hand-off, or the proxying of
\* the request to its platform.
Route(request, config) ==
  LET isDocker == isDockerRequest(request)
      validation == validateRequest(request, config)
      effectivePath == EffectivePath(request)
      platform == DetectPlatform(effectivePath)
      Respond(r) == [kind |-> "respond", response |-> r, platform |-> <<>>]
  IN  IF isDocker /\ request.path \in {<<"v2", "">>, <<"v2">>}
      THEN Respond(addSecurityHeaders(
             Resp(200, "proxy", "application/json", "", FALSE, FALSE, "{}",
                  "", 0, "", FALSE, FALSE)))
      ELSE IF request.path = <<"">>
      THEN Respond(HomeRedirect)
      ELSE IF ~validation.valid
      THEN Respond(createErrorResponse(validation.error, 0, "",
                                       validation.status, FALSE))
      ELSE IF /\ isDocker
              /\ ~StartsWithSegs(request.path, <<"cr">>)
              /\ ~StartsWithSegs(request.path, <<"v2", "cr">>)
              /\ request.path # <<"v2", "auth">>
      THEN Respond(createErrorResponse(
             "container registry requests must use /cr/ prefix", 0, "",
             400, FALSE))
      ELSE IF isDocker /\ request.path = <<"v2", "auth">>
      THEN [kind |-> "auth", response |-> Undefined, platform |-> <<>>]
      ELSE IF platform = <<>> \/ ~HasPlatform(platform)
      THEN Respond(HomeRedirect)
      ELSE IF effectivePath = platform \/ effectivePath = platform \o <<"">>
      THEN Respond(HomeRedirect)
      ELSE [kind |-> "proxy", response |-> Undefined, platform |-> platform]

\* `${finalTargetPath}${url.search}`: the query string follows the last
\* segment of the path.
WithSearch(path, search) ==
  IF search = "" \/ path = <<>> THEN path
  ELSE [path EXCEPT ![Len(path)] = @ \o search]

\* `${config.PLATFORMS[platform]}${finalTargetPath}${url.search}`: the
\* origin, named by its key, and the path; a registry's path gets /v2 back.
TargetUrl(request, platform) ==
  LET targetPath == transformPath(EffectivePath(request), platform)
  IN  [origin |-> platform,
       path |-> WithSearch(IF IsRegistryKey(platform)
                           THEN <<"v2">> \o targetPath
                           ELSE targetPath,
                           request.search)]

\* targetUrl as handleRequest computes it for a request it proxies; a
\* request answered before that point has none.
TargetOf(request, config) ==
  LET route == Route(request, config)
  IN  IF route.kind = "proxy" THEN TargetUrl(request, route.platform)
      ELSE [origin |-> <<>>, path |-> <<>>]

\* PLATFORMS[platform] is a URL only for a key of the table: for an
\* inherited property the target is no URL, and fetch(targetUrl) rejects.
IsUrl(target) == target.origin \in PLATFORMS

\* Fault: only Authorization counts as sensitive.
hasSensitiveHeadersAuthorizationOnly(request) == request.authorization

\* hasSensitiveHeaders
hasSensitiveHeaders(request) ==
  request.authorization \/ request.cookie \/ request.proxyAuthorization

\* request.headers, the headers of the cache keys
RequestHeaders(request) ==
  [authorization |-> request.authorization, cookie |-> request.cookie,
   proxyAuthorization |-> request.proxyAuthorization,
   range |-> request.range, userAgent |-> request.userAgent,
   accept |-> request.accept, contentType |-> request.contentType]

\* A Request built without headers
NoHeaders ==
  [authorization |-> FALSE, cookie |-> FALSE, proxyAuthorization |-> FALSE,
   range |-> FALSE, userAgent |-> "", accept |-> "", contentType |-> ""]

\* new Request(targetUrl, {method: 'GET', headers})
CacheKey(target, headers) == [url |-> target, headers |-> headers]

\* [...request.headers.entries()].filter(([k]) => k.toLowerCase() !== 'range')
WithoutRange(headers) == [headers EXCEPT !.range = FALSE]

\* ------------------------------------------------------------------ state
VARIABLES
  config,      \* createConfig(env): MAX_RETRIES, RETRY_DELAY_MS, ALLOWED_METHODS
  request,     \* the incoming request
  targetUrl,   \* the handler's `targetUrl` for that request
  pc,          \* where the handler is suspended: "start", the kind of the
               \* fetch it awaits, "sleep" (backoff) or "done"
  attempts,    \* the retry loop's counter
  response,    \* the handler's `response` variable
  timers,      \* loop iterations whose abort timer is armed
  inflight,    \* the fetch the handler awaits
  fetches,     \* number of fetches issued so far, by kind
  sleeps,      \* the backoff delays requested so far, in order
  iterations,  \* number of loop iterations entered so far
  outcomes,    \* how the fetches ended, in order (see Answered, Rejected)
  final,       \* the response handleRequest returned
  cache,       \* caches.default: whether it exists, and the keys it holds
  puts,        \* keys of the cache.put calls that have not settled yet
  cacheOps,    \* the calls of cache.match and cache.put made for the request
  cacheResults,\* how the awaited matches and the settled puts ended, in order
  served,      \* number of requests handled before this one
  call,        \* a call of a pure function: its name and arguments
  result,      \* what that call returned
  handlers     \* the invocations of handleRequest that run side by side

vars ==
  <<config, request, targetUrl, pc, attempts, response, timers, inflight,
    fetches, sleeps, iterations, outcomes, final, cache, puts, cacheOps,
    cacheResults, served, call, result, handlers>>

\* What the handler's own steps leave alone: the store's contents, the
\* results it reported, the count of earlier requests, the pure calls.
envVars == <<cache, cacheResults, served, call, result, handlers>>

FetchKinds ==
  {"primary", "head_range", "redirect", "token", "auth_retry",
   "auth_redirect", "v2root", "token_proxy"}

\* How a fetch ended: with a response, or rejected (status 0) with a
\* network error or, its signal aborted, with an AbortError.
Answered(kind, r) ==
  [kind |-> kind, status |-> r.status, www |-> r.www, body |-> r.body,
   cl |-> r.cl]
Rejected(kind, error) ==
  [kind |-> kind, status |-> 0, www |-> "", body |-> error, cl |-> FALSE]

NoUrl == [origin |-> <<>>, path |-> <<>>]

NoFetch ==
  [kind |-> "", authorization |-> "", signal |-> 0, redirect |-> "",
   method |-> "", url |-> NoUrl, scope |-> <<>>]

\* The invocations that run side by side, and one that has just been
\* entered: no cache miss seen, no attempt made, no fetch issued.
Handlers == 1..NumHandlers

Entered == [pc |-> "start", missed |-> FALSE, attempts |-> 0, fetches |-> 0,
            status |-> 0]

NoHandlers == [h \in Handlers |-> [Entered EXCEPT !.pc = ""]]

\* No pure function is being called.
NoEnv == [s \in Settings |-> Unset]

NoCall == [fn |-> "", path |-> <<>>, key |-> <<>>, depth |-> 0, env |-> NoEnv]

NoSettings == [s \in Settings |-> 0]

NoResult ==
  [done |-> FALSE, path |-> <<>>, key |-> <<>>, scope |-> <<>>,
   settings |-> NoSettings, git |-> FALSE, valid |-> FALSE]

\* ----------------------------------------------------------------- inputs
BaseRequest(method, path) ==
  [method |-> method, path |-> path, search |-> "", authorization |-> FALSE,
   cookie |-> FALSE, proxyAuthorization |-> FALSE, range |-> FALSE,
   userAgent |-> "", accept |-> "", contentType |-> "", service |-> "",
   scope |-> NoScope, pathDefect |-> "none"]

Methods == {"GET", "HEAD", "POST", "OPTIONS"}

ManifestPath == <<"cr", "docker", "library", "ubuntu", "manifests", "latest">>

Paths ==
  {<<"">>, <<"v2">>, <<"v2", "">>, <<"v2">> \o ManifestPath, ManifestPath,
   <<"v2", "gh", "user", "repo">>, <<"gh", "user", "repo">>, <<"gh", "">>,
   <<"gh", "user", "repo.git", "info", "refs">>, <<"unknown", "x">>,
   <<"constructor", "x">>}

Scopes ==
  {NoScope,
   ScopeOf(<< <<"">> >>),
   ScopeOf(<< <<"registry">>, <<"catalog">>, <<"*">> >>),
   ScopeOf(<< <<"repository">>, <<"cr", "docker", "library", "ubuntu">> >>),
   ScopeOf(<< <<"repository">>, <<"gh", "user", "repo">>, <<"pull">> >>),
   ScopeOf(<< <<"repository">>, <<"cr", "docker">>, <<"pull">> >>),
   ScopeOf(<< <<"repository">>, <<"cr", "docker", "library", "ubuntu">>,
              <<"pull">> >>),
   ScopeOf(<< <<"repository">>, <<"cr", "ghcr", "org", "image">>,
              <<"pull,push">> >>),
   ScopeOf(<< <<"repository">>, <<"cr", "quay", "org", "image">>,
              <<"pull">>, <<"push">> >>)}

\* Requests for one plain file, with and without a Range header and with
\* and without a further header.
FilePath == <<"gh", "user", "repo">>

PlainUserAgents == {"curl/8.0"}

\* The chat endpoint of an inference provider whose API is versioned in
\* the path.
ChatPath == <<"ip", "cohere", "v2", "chat">>

\* The crate search /crates/?q=tokio and the page of one crate.
SearchPath == <<"crates", "">>

CratePath == <<"crates", "serde">>

\* A page of the Python package index.
IndexPath == <<"pypi", "simple", "requests">>

CacheableRequests ==
  {[BaseRequest(m, FilePath) EXCEPT !.range = rg, !.userAgent = ua] :
     m \in {"GET", "HEAD"}, rg \in BOOLEAN,
     ua \in {""} \cup PlainUserAgents}

\* The requests that follow the first one.
FollowUps == {req \in CacheableRequests : req.method = "GET"}

Requests ==
  {[BaseRequest(m, p) EXCEPT !.authorization = a] :
     m \in Methods, p \in Paths, a \in BOOLEAN}
  \cup {[BaseRequest(m, ManifestPath) EXCEPT !.userAgent = "docker/24.0.5"] :
          m \in {"GET", "HEAD"}}
  \cup {[BaseRequest(m, <<"v2", "auth">>) EXCEPT
           !.scope = sc, !.authorization = a] :
          m \in {"GET", "OPTIONS"}, sc \in Scopes, a \in BOOLEAN}
  \cup {[BaseRequest("GET", <<"gh", "user", "repo">>) EXCEPT
           !.pathDefect = d] : d \in {"too_long", "traversal"}}
  \cup CacheableRequests
  \cup {[BaseRequest("GET", FilePath) EXCEPT !.cookie = TRUE],
        [BaseRequest("GET", FilePath) EXCEPT !.proxyAuthorization = TRUE],
        [BaseRequest("GET", <<"gh", "user", "repo.git", "info", "refs">>)
           EXCEPT !.range = TRUE]}
  \cup {[BaseRequest("GET", IndexPath) EXCEPT !.userAgent = ua, !.range = rg] :
          ua \in {""} \cup GitUserAgents, rg \in BOOLEAN}
  \cup {BaseRequest(m, ChatPath) : m \in {"GET", "POST"}}
  \cup {[BaseRequest("GET", p) EXCEPT !.search = q] :
          p \in {SearchPath, CratePath}, q \in QuerySegments}

\* parseInt(String(env.MAX_RETRIES), 10) || 3 is any integer but 0.
RetryChoices == {-1, DEFAULT_MAX_RETRIES} \cup (1..MaxRetriesBound)

\* The first requests of the runs with later requests, and their
\* configurations.
\* Arguments of the calls of transformPath and of the platform detection.
TransformKeys ==
  {<<"gh">>, <<"crates">>, <<"jenkins">>, <<"homebrew">>, <<"pypi">>,
   <<"homebrew", "api">>, <<"homebrew", "bottles">>, <<"ip", "openai">>,
   <<"missing", "key">>, <<"nonexistent">>, <<"constructor">>}

TransformPaths ==
  {<<"">>, <<"crates">>, <<"crates", "">>, <<"crates", "serde">>,
   <<"crates", "serde", "1.0.0", "download">>, <<"crates", "?q=tokio">>,
   <<"jenkins", "update-center.json">>,
   <<"jenkins", "update-center.actual.json">>,
   <<"jenkins", "experimental", "update-center.json">>,
   <<"jenkins", "download", "plugins", "git.hpi">>,
   <<"jenkins", "current", "update-center.json">>,
   <<"jenkins", "plugins", "git">>,
   <<"unknown", "x">>, <<"gh", "user", "repo">>,
   <<"homebrew", "api", "formula", "git.json">>,
   <<"ip", "openai", "v1", "chat", "completions">>,
   <<"constructor", "x">>}

DetectPaths ==
  {<<"">>, <<"homebrew", "api", "formula", "git.json">>,
   <<"homebrew", "api">>, <<"homebrew", "bottles", "v2", "x">>,
   <<"homebrew", "brew">>, <<"pypi", "files", "packages", "x.whl">>,
   <<"pypi", "simple", "requests">>,
   <<"conda", "community", "conda-forge", "x">>, <<"conda", "pkgs", "main">>,
   <<"cr", "docker", "library", "ubuntu">>, <<"gh", "user", "repo">>,
   <<"unknown", "x">>, <<"pypi-files", "x">>, <<"constructor", "x">>}

ScopePaths ==
  {<<"v2", "cr", "docker", "library", "ubuntu", "manifests", "latest">>,
   <<"v2", "cr", "docker", "ubuntu", "manifests", "latest">>,
   <<"v2", "cr", "ghcr", "org", "image", "blobs", "sha256">>,
   <<"v2", "cr", "ghcr", "image", "tags", "list">>,
   <<"v2", "cr", "quay", "org", "image", "referrers", "sha256">>,
   <<"v2", "cr", "ghcr", "org", "tags", "manifests", "latest">>,
   <<"v2", "cr", "docker", "_catalog">>,
   <<"v2", "cr", "docker", "library", "ubuntu">>,
   <<"v2", "cr", "docker", "ubuntu">>,
   <<"v2", "cr", "ghcr", "image">>,
   <<"v2", "cr", "docker", "">>,
   <<"v2", "cr", "docker">>,
   <<"v2", "cr", "docker", "manifests", "latest">>,
   <<"cr", "docker", "library", "ubuntu", "manifests", "latest">>}

ScopePlatforms == {<<"cr", "docker">>, <<"cr", "ghcr">>, <<"cr", "quay">>}

\* Values of an environment variable: unset, empty, decimal integers (zero
\* among them), and strings that are not integers.
EnvValues ==
  {Unset, EnvString(<<>>), EnvString(<<"5">>), EnvString(<<"6", "0">>),
   EnvString(<<"0">>), EnvString(<<"-", "2">>), EnvString(<<"a", "b", "c">>),
   EnvString(<<"1", "2", "a", "b", "c">>), EnvString(<<" ", "7">>),
   EnvString(<<"-">>)}

\* Environments that set one setting, or all of them to the same value.
Envs ==
  {[s \in Settings |-> IF s \in which THEN v ELSE Unset] :
     v \in EnvValues, which \in {Settings} \cup {{s} : s \in Settings}}

PureCalls ==
  {[fn |-> "transformPath", path |-> p, key |-> k, depth |-> 0,
    env |-> NoEnv] :
     p \in TransformPaths, k \in TransformKeys}
  \cup {[fn |-> "DetectPlatform", path |-> p, key |-> <<>>, depth |-> 0,
         env |-> NoEnv] :
          p \in DetectPaths}
  \cup {[fn |-> "getScopeFromUrl", path |-> p, key |-> k, depth |-> 0,
         env |-> NoEnv] :
          p \in ScopePaths, k \in ScopePlatforms}
  \cup {[fn |-> "createConfig", path |-> <<>>, key |-> <<>>, depth |-> 0,
         env |-> e] :
          e \in Envs}
  \cup {[fn |-> "isGitRequest", path |-> <<>>, key |-> <<>>, depth |-> 0,
         env |-> NoEnv],
        [fn |-> "validateRequest", path |-> <<>>, key |-> <<>>, depth |-> 0,
         env |-> NoEnv]}

\* Requests validateRequest is asked about, plain ones and Git ones, and
\* the method lists an operator may configure (ALLOWED_METHODS split at
\* the commas).
ValidationInputs ==
  {[BaseRequest(m, FilePath) EXCEPT !.userAgent = ua] :
     m \in {"GET", "HEAD", "POST", "DELETE", "OPTIONS"},
     ua \in {""} \cup GitUserAgents}

ValidationConfigs ==
  [MAX_RETRIES : {2},
   RETRY_DELAY_MS : {DEFAULT_RETRY_DELAY_MS},
   ALLOWED_METHODS : {{"GET", "HEAD"}, {"GET"}, {"GET", "HEAD", "OPTIONS"}}]

\* Requests isGitRequest is asked about: every combination of a path, a
\* User-Agent, a `service` parameter and a Content-Type, each of them once
\* a Git one and once not.
GitInputs ==
  {[BaseRequest("POST", p) EXCEPT
      !.userAgent = ua, !.service = sv, !.contentType = ct] :
     p \in {<<"gh", "user", "repo">>,
            <<"gh", "user", "repo.git", "info", "refs">>,
            <<"gh", "user", "repo.git", "git-upload-pack">>},
     ua \in {""} \cup GitUserAgents \cup PlainUserAgents,
     sv \in {"", "git-upload-pack", "other"},
     ct \in {"", "application/x-git-upload-pack-request", "text/plain"}}

RoundTripRequests ==
  CacheableRequests
  \cup {BaseRequest("GET", <<"v2">> \o ManifestPath),
        [BaseRequest("GET", <<"v2", "auth">>) EXCEPT
           !.scope = ScopeOf(<< <<"repository">>,
                               <<"cr", "docker", "library", "ubuntu">>,
                               <<"pull">> >>)]}

RoundTripConfigs ==
  [MAX_RETRIES : {2},
   RETRY_DELAY_MS : {DEFAULT_RETRY_DELAY_MS},
   ALLOWED_METHODS : {{"GET", "HEAD"}}]

Configs ==
  [MAX_RETRIES : RetryChoices,
   RETRY_DELAY_MS : {DEFAULT_RETRY_DELAY_MS, 250},
   ALLOWED_METHODS : {{"GET", "HEAD"}}]

\* ------------------------------------------------------- upstream answers
\* finalFetchOptions.redirect = 'manual' for a Docker request
IsManualRedirect == isDockerRequest(request)

PrimaryAnswers ==
  {Upstream(200, "", FALSE, cl) :
     cl \in IF request.method = "HEAD" THEN BOOLEAN ELSE {TRUE}}
  \cup {Upstream(206, "", FALSE, TRUE), Upstream(404, "", FALSE, TRUE),
        Upstream(503, "", FALSE, TRUE)}
  \cup {Upstream(401, w, FALSE, TRUE) :
          w \in IF isDockerRequest(request)
                THEN {"", "valid", "invalid"} ELSE {""}}
  \cup (IF IsManualRedirect
        THEN {Upstream(302, "", l, TRUE) : l \in BOOLEAN}
        ELSE {})
  \cup (IF targetUrl.origin = <<"pypi">> THEN {Html(200), Html(206)} ELSE {})

\* Answers to the GET with Range: bytes=0-0; cl on a 206 says that its
\* Content-Range names the total size.
RangeAnswers ==
  {Upstream(st, "", FALSE, cl) : st \in {200, 206}, cl \in BOOLEAN}
  \cup {Upstream(503, "", FALSE, TRUE)}

\* Answers to a fetch with redirect: 'follow'
FollowedAnswers ==
  {Upstream(200, "", FALSE, TRUE), Upstream(404, "", FALSE, TRUE),
   Upstream(503, "", FALSE, TRUE), Upstream(401, "valid", FALSE, TRUE)}

TokenAnswers ==
  {TokenAnswer(200, "token"), TokenAnswer(200, "notoken"),
   TokenAnswer(200, "garbage"), TokenAnswer(403, "notoken")}

RetryAnswers ==
  {Upstream(200, "", FALSE, TRUE), Upstream(206, "", FALSE, TRUE),
   Upstream(401, "valid", FALSE, TRUE),
   Upstream(503, "", FALSE, TRUE)}
  \cup {Upstream(302, "", l, TRUE) : l \in BOOLEAN}

V2RootAnswers ==
  {Upstream(401, w, FALSE, TRUE) : w \in {"", "valid", "invalid"}}
  \cup {Upstream(200, "", FALSE, TRUE), Upstream(503, "", FALSE, TRUE)}

\* ------------------------------------------------------------- the cache
\* cache && !isGit && !isGitLFS && !isDocker && !isAI && !isHF &&
\* !hasSensitiveHeaders
CacheGuard ==
  cache.available /\ ~IsProtocol(request) /\ ~hasSensitiveHeaders(request)

\* The lookup keys.
AsRequestedKey == CacheKey(targetUrl, RequestHeaders(request))

FullContentKey == CacheKey(targetUrl, WithoutRange(RequestHeaders(request)))

\* The store key: rangeHeader ? the request's headers without Range
\*                             : new Request(targetUrl, {method: 'GET'})
StoreKey ==
  IF request.range THEN FullContentKey ELSE CacheKey(targetUrl, NoHeaders)

\* Fault: every successful answer is stored, whatever its status.
StoreGuardAnyOk(r) ==
  /\ r # Undefined
  /\ Ok(r)
  /\ CacheGuard
  /\ request.method = "GET"

\* The guard of "Cache success logic", which sits in the success branch:
\* ... && request.method === 'GET' && response.ok && response.status === 200
StoreGuard(r) ==
  /\ r # Undefined
  /\ Ok(r)
  /\ CacheGuard
  /\ request.method = "GET"
  /\ r.status = 200

\* The store answers a match with the response it holds under a key equal
\* to the probed one, URL and headers.  An entry is [key, by]: the key it
\* was put under and the headers of the request whose answer it holds.
CacheMatch(key) == \E entry \in cache.entries : entry.key = key

\* Fault: the hit is answered with the entry's headers and no body.
CachedResponseWithoutBody ==
  addSecurityHeaders(
    Resp(200, "cache", "application/octet-stream", "", FALSE, TRUE, "",
         "", 0, "", FALSE, FALSE))

\* A response as the cache returns it: what Store put there.
CachedResponse ==
  addSecurityHeaders(
    Resp(200, "cache", "application/octet-stream", "", FALSE, TRUE, "data",
         "", 0, "", FALSE, FALSE))

\* ----------------------------------------------------------- fetch targets
\* Fault: the scope is passed on as the client sent it.
NewScopeUnchanged(scope, key) == scope.parts

\* handleDockerAuth: newScope = `repository:${repoPath}:${parts.slice(2).join(':')}`
\* with repoPath = fullRepoPath.slice(prefix.length + 1)
NewScope(scope, key) ==
  << <<"repository">>, SubSeq(scope.parts[2], Len(key) + 1, Len(scope.parts[2])) >>
    \o SubSeq(scope.parts, 3, Len(scope.parts))

\* The URL a fetch goes to: the target URL, the Location of a redirect, the
\* realm of a challenge, or the /v2/ root of the registry a scope names.
FetchUrl(kind) ==
  IF kind \in {"primary", "head_range", "auth_retry"} THEN targetUrl
  ELSE IF kind \in {"redirect", "auth_redirect"}
  THEN [origin |-> <<"location">>, path |-> <<>>]
  ELSE IF kind \in {"token", "token_proxy"}
  THEN [origin |-> <<"realm">>, path |-> <<>>]
  ELSE [origin |-> AuthScopeCheck(request).key, path |-> <<"v2", "">>]

\* The scope parameter of a token request: the rewritten scope at /v2/auth,
\* the scope inferred from the path in the inline 401 flow.
FetchScope(kind) ==
  IF kind = "token_proxy"
  THEN NewScope(request.scope, AuthScopeCheck(request).key)
  ELSE IF kind = "token"
  THEN getScopeFromUrl(request.path, EffectivePath(request), targetUrl.origin)
  ELSE <<>>

\* ------------------------------------------------- the handler's returns
\* Fault: the metrics header is added whatever the request is.
FinalizeAlways(r) == addPerformanceHeaders(r)

\* The code after the top-level try/catch: X-Performance-Metrics (and the
\* security headers with it) on a non-protocol request's response only.
Finalize(r) == IF IsProtocol(request) THEN r ELSE addPerformanceHeaders(r)

\* Fault: the answer of the top-level catch does not say what was thrown.
InternalErrorWithoutMessage(message) ==
  createErrorResponse("Internal Server Error", 0, "", 500, TRUE)

\* catch (error) at the top level of handleRequest:
\* createErrorResponse(`Internal Server Error: ${message}`, 500, true)
InternalError(message) ==
  createErrorResponse("Internal Server Error", 0, message, 500, TRUE)

\* responseUnauthorized's text is JSON, but its Content-Type is not
isCustomError(r) == r.ctype = "application/json" /\ r.body = "UNAUTHORIZED"

\* originalText.replace(/https:\/\/files\.pythonhosted\.org/g, ...) for the
\* platform pypi and a text/html answer: the links of the page now point at
\* the proxy; a body without such links is left as it is.  (The npm rule,
\* for application/json, has the same shape.)
RewriteBody(r) ==
  IF targetUrl.origin = <<"pypi">> /\ r.ctype = "text/html"
       /\ r.body = "links"
  THEN [r EXCEPT !.body = "rewritten"]
  ELSE r

\* The success branch: the body is rewritten, and a non-protocol response
\* gets the cache and security headers; the status is the upstream's.
SuccessResponse(r) ==
  IF IsProtocol(request) THEN RewriteBody(r)
  ELSE addSecurityHeaders(RewriteBody(r))

\* Fault: an upstream error is always surfaced as a 500.
PostLoopAlways500(r) ==
  IF r = Undefined
  THEN createErrorResponse("No response received after all retry attempts",
                           0, "", 500, TRUE)
  ELSE IF ~Ok(r) /\ r.status # 206
  THEN createErrorResponse("Upstream server error", r.n, r.msg, 500, TRUE)
  ELSE SuccessResponse(r)

\* The code between the retry loop and the top-level catch.
PostLoop(r) ==
  IF r = Undefined
  THEN createErrorResponse("No response received after all retry attempts",
                           0, "", 500, TRUE)
  ELSE IF ~Ok(r) /\ r.status # 206
  THEN IF isDockerRequest(request) /\ r.status = 401
       THEN IF isCustomError(r) THEN r
            ELSE createErrorResponse(
                   "Authentication required for this container registry resource",
                   0, r.msg, 401, TRUE)
       ELSE createErrorResponse("Upstream server error", r.n, r.msg,
                                r.status, TRUE)
  ELSE SuccessResponse(r)

\* ------------------------------------------------------------ loop pieces
\* Fault: the loop runs while attempts <= MAX_RETRIES.
LoopConditionInclusive(att) == att <= config.MAX_RETRIES

\* while (attempts < config.MAX_RETRIES)
LoopCondition(att) == att < config.MAX_RETRIES

\* Fault: a constant delay.
BackoffDelayConstant(att) == config.RETRY_DELAY_MS

\* config.RETRY_DELAY_MS * attempts
BackoffDelay(att) == config.RETRY_DELAY_MS * att

\* Fault: only a 400 counts as a client error.
IsClientErrorOnly400(r) == r.status = 400

\* response.status >= 400 && response.status < 500
IsClientError(r) == r.status >= 400 /\ r.status < 500

\* response.status === 301 || ... 302 || ... 307, with a Location
IsManualHop(r) ==
  IsManualRedirect /\ r.status \in {301, 302, 307} /\ r.loc

\* Fault: only a 200 counts as a successful retry.
RetrySucceededOnly200(rr) == rr.status = 200

\* if (retryResponse.ok)
RetrySucceeded(rr) == Ok(rr)

\* The Authorization header of the request proper (both header policies
\* forward the client's).
ClientAuthorization == IF request.authorization THEN "client" ELSE ""

\* Fault: the Authorization header is kept.
RedirectAuthorizationKept(auth) == auth

\* redirectHeaders.delete('Authorization')
RedirectAuthorization(auth) == ""

\* createErrorResponse(`Failed after ${config.MAX_RETRIES} attempts: ...`, 500, true)
ExhaustedResponse ==
  createErrorResponse("Failed after attempts", config.MAX_RETRIES, "", 500, TRUE)

\* createErrorResponse('Request timeout', 408)
TimeoutResponse == createErrorResponse("Request timeout", 0, "", 408, FALSE)

\* ------------------------------------------------------------ transitions
\* handleRequest returns r.
Deliver(r, att, tm) ==
  /\ pc' = "done"
  /\ final' = Finalize(r)
  /\ response' = r
  /\ attempts' = att
  /\ timers' = tm
  /\ inflight' = NoFetch
  /\ UNCHANGED <<fetches, sleeps, iterations>>

\* The handler returns r without touching the cache.
Return(r, att, tm) == Deliver(r, att, tm) /\ UNCHANGED <<cacheOps, puts>>

\* The handler awaits a cache.match.
AwaitMatch(state, key, ops, resp, att, tm) ==
  /\ pc' = state
  /\ cacheOps' = Append(ops, [op |-> "match", key |-> key, via |-> "await"])
  /\ response' = resp
  /\ attempts' = att
  /\ timers' = tm
  /\ inflight' = NoFetch
  /\ UNCHANGED <<fetches, sleeps, iterations, final>>

\* A probe of the cache lookup, made before any fetch.
Probe(state, key) ==
  AwaitMatch(state, key, cacheOps, Undefined, 0, {}) /\ UNCHANGED puts

\* "Cache success logic": cache.put(cacheKey, response.clone()), handed to
\* ctx.waitUntil or left to run detached, is not awaited; it may also throw
\* at once, which the catch swallows.  A request with a Range header then
\* awaits a probe of the as-requested key.
Store(r, att, tm) ==
  \E via \in {"waitUntil", "detached", "threw"} :
    LET ops == Append(cacheOps, [op |-> "put", key |-> StoreKey, via |-> via])
        put == [key |-> StoreKey, by |-> RequestHeaders(request)]
    IN  /\ puts' = IF via = "threw" THEN puts ELSE puts \cup {put}
        /\ IF via # "threw" /\ request.range
           THEN AwaitMatch("cache_reprobe", AsRequestedKey, ops, r, att, tm)
           ELSE Deliver(r, att, tm) /\ cacheOps' = ops

\* The retry loop is left with `response` = r.
Finish(r, att, tm) ==
  IF StoreGuard(r) THEN Store(PostLoop(r), att, tm)
  ELSE Return(PostLoop(r), att, tm)

\* The handler issues a fetch and awaits it.
Issue(kind, auth, sig, redirect, method, att, resp, tm) ==
  /\ pc' = kind
  /\ inflight' = [kind |-> kind, authorization |-> auth, signal |-> sig,
                  redirect |-> redirect, method |-> method,
                  url |-> FetchUrl(kind), scope |-> FetchScope(kind)]
  /\ fetches' = [fetches EXCEPT ![kind] = @ + 1]
  /\ attempts' = att
  /\ response' = resp
  /\ timers' = tm
  /\ UNCHANGED <<sleeps, iterations, final, cacheOps, puts>>

\* One more iteration: arm its timer, issue the fetch of the target URL.
BeginAttempt(att, resp, tm) ==
  /\ iterations' = iterations + 1
  /\ pc' = "primary"
  /\ inflight' = [kind |-> "primary", authorization |-> ClientAuthorization,
                  signal |-> iterations + 1,
                  redirect |-> IF IsManualRedirect THEN "manual" ELSE "follow",
                  method |-> request.method,
                  url |-> FetchUrl("primary"), scope |-> <<>>]
  /\ fetches' = [fetches EXCEPT !["primary"] = @ + 1]
  /\ attempts' = att
  /\ response' = resp
  /\ timers' = tm \cup {iterations + 1}
  /\ UNCHANGED <<sleeps, final, cacheOps, puts>>

\* The loop's head.
EnterLoop(att, resp, tm) ==
  IF LoopCondition(att) THEN BeginAttempt(att, resp, tm)
  ELSE Finish(resp, att, tm)

\* await new Promise(resolve => setTimeout(resolve, RETRY_DELAY_MS * attempts))
Backoff(att, resp, tm) ==
  /\ pc' = "sleep"
  /\ sleeps' = Append(sleeps, BackoffDelay(att))
  /\ inflight' = NoFetch
  /\ attempts' = att
  /\ response' = resp
  /\ timers' = tm
  /\ UNCHANGED <<fetches, iterations, final, cacheOps, puts>>

\* Fault: the iteration ends without counting the attempt.
RetryWithoutCounting(r, att, tm) ==
  IF att + 1 < config.MAX_RETRIES
  THEN Backoff(att, r, tm)
  ELSE EnterLoop(att + 1, r, tm)

\* attempts++ at the end of the try block, and the sleep if attempts remain
Retry(r, att, tm) ==
  IF att + 1 < config.MAX_RETRIES
  THEN Backoff(att + 1, r, tm)
  ELSE EnterLoop(att + 1, r, tm)

\* Fault: an AbortError is handled like any other thrown error.
CatchRetriesAbort(isAbort, att, resp, tm) ==
  IF att + 1 >= config.MAX_RETRIES
  THEN Finish(ExhaustedResponse, att + 1, tm)
  ELSE Backoff(att + 1, resp, tm)

\* The catch block of an iteration.
Catch(isAbort, att, resp, tm) ==
  IF isAbort THEN Finish(TimeoutResponse, att + 1, tm)
  ELSE IF att + 1 >= config.MAX_RETRIES
  THEN Finish(ExhaustedResponse, att + 1, tm)
  ELSE Backoff(att + 1, resp, tm)

\* Fault: the inline 401 flow gives up without leaving the loop.
UnauthorizedWithoutBreak(att, tm) == Retry(responseUnauthorized, att, tm)

\* The inline 401 flow gives up: response = responseUnauthorized(url); break
Unauthorized(att, tm) == Finish(responseUnauthorized, att, tm)

\* Fault: the token request carries the client's Authorization header.
SettleTokenWithCredentials(r, att, tm) ==
  IF Ok(r) \/ r.status = 206 THEN Finish(r, att, tm)
  ELSE IF isDockerRequest(request) /\ r.status = 401
  THEN IF r.www = "" THEN Unauthorized(att, tm)
       ELSE IF ~parseAuthenticate(r.www).ok THEN Unauthorized(att, tm)
       ELSE Issue("token", ClientAuthorization, 0, "follow", "GET", att, r,
                  tm)
  ELSE IF IsClientError(r) THEN Finish(r, att, tm)
  ELSE Retry(r, att, tm)

\* The checks on the response of an iteration, from `response.ok` on.
Settle(r, att, tm) ==
  IF Ok(r) \/ r.status = 206 THEN Finish(r, att, tm)
  ELSE IF isDockerRequest(request) /\ r.status = 401
  THEN IF r.www = "" THEN Unauthorized(att, tm)
       ELSE IF ~parseAuthenticate(r.www).ok THEN Unauthorized(att, tm)
       ELSE Issue("token", "", 0, "follow", "GET", att, r, tm)
  ELSE IF IsClientError(r) THEN Finish(r, att, tm)
  ELSE Retry(r, att, tm)

\* clearTimeout(timeoutId), then the manual redirect of a Docker request.
AfterFetch(r, att, tm) ==
  LET cleared == tm \ {inflight.signal}
  IN  IF IsManualHop(r)
      THEN Issue("redirect", RedirectAuthorization(inflight.authorization),
                 inflight.signal, "follow", inflight.method, att, r, cleared)
      ELSE Settle(r, att, cleared)

\* ---------------------------------------------------------------- actions
\* A worker with an empty cache receives a request.
Start(configs, requests) ==
  /\ config \in configs
  /\ request \in requests
  /\ targetUrl = TargetOf(request, config)
  /\ pc = "start"
  /\ attempts = 0
  /\ response = Undefined
  /\ timers = {}
  /\ inflight = NoFetch
  /\ fetches = [k \in FetchKinds |-> 0]
  /\ sleeps = <<>>
  /\ iterations = 0
  /\ outcomes = <<>>
  /\ final = Undefined
  /\ cache \in [available : IF request \in CacheableRequests THEN BOOLEAN
                             ELSE {TRUE},
                 entries : {{}}]
  /\ puts = {}
  /\ cacheOps = <<>>
  /\ cacheResults = <<>>
  /\ served = 0
  /\ call = NoCall
  /\ result = NoResult
  /\ handlers = NoHandlers

Init == Start(Configs, Requests)

\* handleRequest up to its first await.
HandleRequest ==
  /\ pc = "start"
  /\ LET route == Route(request, config)
         check == AuthScopeCheck(request)
     IN  IF route.kind = "respond" THEN Return(route.response, 0, {})
         ELSE IF route.kind = "auth"
         THEN IF ~check.ok
              THEN Return(createErrorResponse(check.error, 0, "", 400, FALSE),
                          0, {})
              ELSE Issue("v2root", "", 0, "follow", "GET", 0, Undefined, {})
         ELSE IF CacheGuard /\ IsUrl(targetUrl)
         THEN Probe("cache_match", AsRequestedKey)
         ELSE EnterLoop(0, Undefined, {})
  /\ UNCHANGED <<config, request, targetUrl, outcomes, envVars>>

\* response = await fetch(targetUrl, finalFetchOptions) resolves.
PrimaryResolve ==
  /\ pc = "primary"
  /\ IsUrl(targetUrl)
  /\ \E r \in PrimaryAnswers :
       /\ outcomes' = Append(outcomes, Answered(pc, r))
       /\ IF request.method = "HEAD" /\ Ok(r) /\ ~r.cl
          THEN Issue("head_range", inflight.authorization, inflight.signal,
                     inflight.redirect, "GET", attempts, r, timers)
          ELSE AfterFetch(r, attempts, timers)
  /\ UNCHANGED <<config, request, targetUrl, envVars>>

\* Fault: any successful follow-up counts as having told the length.
RecoveredWhenOk(rr) == Ok(rr)

\* contentLength is set: from the Content-Range total of a 206, from the
\* Content-Length of another 2xx.
Recovered(rr) == IF rr.status = 206 THEN rr.cl ELSE Ok(rr) /\ rr.cl

\* The follow-up GET of a HEAD request resolves.
HeadRangeResolve ==
  /\ pc = "head_range"
  /\ \E rr \in RangeAnswers :
       LET recovered == Recovered(rr)
           head == IF recovered
                   THEN [response EXCEPT !.cl = TRUE, !.body = ""]
                   ELSE response
       IN  /\ outcomes' = Append(outcomes, Answered(pc, rr))
           /\ AfterFetch(head, attempts, timers)
  /\ UNCHANGED <<config, request, targetUrl, envVars>>

\* The fetch of a Docker redirect's Location resolves.
RedirectResolve ==
  /\ pc = "redirect"
  /\ \E r \in FollowedAnswers :
       /\ outcomes' = Append(outcomes, Answered(pc, r))
       /\ Settle(r, attempts, timers)
  /\ UNCHANGED <<config, request, targetUrl, envVars>>

\* A fetch inside the iteration's try block rejects with a network error.
FetchThrows ==
  /\ pc \in {"primary", "head_range", "redirect"}
  /\ outcomes' = Append(outcomes, Rejected(pc, "NetworkError"))
  /\ Catch(FALSE, attempts, response, timers)
  /\ UNCHANGED <<config, request, targetUrl, envVars>>

\* An armed abort timer expires: controller.abort().  The fetch that holds
\* the controller's signal rejects with an AbortError; a timer left behind
\* by an earlier iteration aborts a controller nobody listens to.
TimeoutFires ==
  /\ pc = "primary" => IsUrl(targetUrl)
  /\ \E i \in timers :
       IF pc \in {"primary", "head_range", "redirect", "auth_retry",
                  "auth_redirect"} /\ inflight.signal = i
       THEN /\ outcomes' = Append(outcomes, Rejected(pc, "AbortError"))
            /\ Catch(TRUE, attempts, response, timers \ {i})
       ELSE /\ timers' = timers \ {i}
            /\ UNCHANGED <<pc, attempts, response, inflight, fetches, sleeps,
                           iterations, outcomes, final, cacheOps, puts>>
  /\ UNCHANGED <<config, request, targetUrl, envVars>>

\* The backoff sleep ends.
BackoffDone ==
  /\ pc = "sleep"
  /\ EnterLoop(attempts, response, timers)
  /\ UNCHANGED <<config, request, targetUrl, outcomes, envVars>>

\* The inline token fetch resolves.
TokenResolve ==
  /\ pc = "token"
  /\ \E t \in TokenAnswers :
       /\ outcomes' = Append(outcomes, Answered(pc, t))
       /\ IF Ok(t) /\ t.body = "token"
          THEN Issue("auth_retry", "bearer", iterations, "manual",
                     request.method, attempts, response, timers)
          ELSE Unauthorized(attempts, timers)
  /\ UNCHANGED <<config, request, targetUrl, envVars>>

\* The retry with the Bearer token resolves.
RetryResolve ==
  /\ pc = "auth_retry"
  /\ \E rr \in RetryAnswers :
       /\ outcomes' = Append(outcomes, Answered(pc, rr))
       /\ IF IsManualHop(rr)
          THEN Issue("auth_redirect",
                     RedirectAuthorization(inflight.authorization),
                     inflight.signal, "follow", inflight.method, attempts,
                     response, timers)
          ELSE IF RetrySucceeded(rr) THEN Finish(rr, attempts, timers)
          ELSE Unauthorized(attempts, timers)
  /\ UNCHANGED <<config, request, targetUrl, envVars>>

\* The fetch of the retry's redirect Location resolves.
RetryRedirectResolve ==
  /\ pc = "auth_redirect"
  /\ \E rr \in FollowedAnswers :
       /\ outcomes' = Append(outcomes, Answered(pc, rr))
       /\ IF RetrySucceeded(rr) THEN Finish(rr, attempts, timers)
          ELSE Unauthorized(attempts, timers)
  /\ UNCHANGED <<config, request, targetUrl, envVars>>

\* Fault: no inner try/catch, the error reaches the iteration's catch block.
NegotiationThrowsUncaught ==
  /\ pc \in {"token", "auth_retry", "auth_redirect"}
  /\ outcomes' = Append(outcomes, Rejected(pc, "NetworkError"))
  /\ Catch(FALSE, attempts, response, timers)
  /\ UNCHANGED <<config, request, targetUrl, envVars>>

\* A fetch of the inline 401 flow rejects: catch (error) { console.warn }
NegotiationThrows ==
  /\ pc \in {"token", "auth_retry", "auth_redirect"}
  /\ outcomes' = Append(outcomes, Rejected(pc, "NetworkError"))
  /\ Unauthorized(attempts, timers)
  /\ UNCHANGED <<config, request, targetUrl, envVars>>

\* handleDockerAuth: the fetch of the registry's /v2/ root resolves.
V2RootResolve ==
  /\ pc = "v2root"
  /\ \E r \in V2RootAnswers :
       /\ outcomes' = Append(outcomes, Answered(pc, r))
       /\ IF r.status # 401 THEN Return(r, attempts, timers)
          ELSE IF r.www = "" THEN Return(r, attempts, timers)
          ELSE IF ~parseAuthenticate(r.www).ok
          THEN Return(InternalError("invalid Www-Authenticate Header"),
                      attempts, timers)
          ELSE Issue("token_proxy", ClientAuthorization, 0, "follow", "GET",
                     attempts, response, timers)
  /\ UNCHANGED <<config, request, targetUrl, envVars>>

\* handleDockerAuth: return await fetchToken(...)
TokenProxyResolve ==
  /\ pc = "token_proxy"
  /\ \E t \in TokenAnswers :
       /\ outcomes' = Append(outcomes, Answered(pc, t))
       /\ Return(t, attempts, timers)
  /\ UNCHANGED <<config, request, targetUrl, envVars>>

\* A fetch of handleDockerAuth rejects: the top-level catch answers.
AuthThrows ==
  /\ pc \in {"v2root", "token_proxy"}
  /\ outcomes' = Append(outcomes, Rejected(pc, "NetworkError"))
  /\ Return(InternalError("NetworkError"), attempts, timers)
  /\ UNCHANGED <<config, request, targetUrl, envVars>>

\* Fault: a cache.match that throws reaches the top-level catch.
LookupThrowsUncaught == Return(InternalError("CacheError"), 0, {})

\* catch (cacheError) { console.warn('Cache API unavailable:', cacheError) }:
\* the handler goes on to the fetch as if nothing had been found.
LookupThrows == EnterLoop(0, Undefined, {})

\* const cachedResponse = await cache.match(cacheKey) settles; a throw is
\* caught (console.warn) and the request goes on as on a miss.
CacheMatchResolve ==
  /\ pc = "cache_match"
  /\ \E threw \in BOOLEAN :
       LET found == IF threw THEN "threw"
                    ELSE IF CacheMatch(AsRequestedKey) THEN "hit" ELSE "miss"
       IN  /\ cacheResults' =
                Append(cacheResults, [op |-> "match", result |-> found])
           /\ IF found = "hit" THEN Return(CachedResponse, 0, {})
              ELSE IF found = "threw" THEN LookupThrows
              ELSE IF request.range
              THEN Probe("cache_match_full", FullContentKey)
              ELSE EnterLoop(0, Undefined, {})
  /\ UNCHANGED <<config, request, targetUrl, outcomes, cache, served, call, result, handlers>>

\* const fullCachedResponse = await cache.match(fullContentKey) settles.
CacheFullMatchResolve ==
  /\ pc = "cache_match_full"
  /\ \E threw \in BOOLEAN :
       LET found == IF threw THEN "threw"
                    ELSE IF CacheMatch(FullContentKey) THEN "hit" ELSE "miss"
       IN  /\ cacheResults' =
                Append(cacheResults, [op |-> "match", result |-> found])
           /\ IF found = "hit" THEN Return(CachedResponse, 0, {})
              ELSE IF found = "threw" THEN LookupThrows
              ELSE EnterLoop(0, Undefined, {})
  /\ UNCHANGED <<config, request, targetUrl, outcomes, cache, served, call, result, handlers>>

\* The probe after the store settles: const rangedResponse = await
\* cache.match(...); a hit replaces the response, a throw is caught.
CacheReprobeResolve ==
  /\ pc = "cache_reprobe"
  /\ \E threw \in BOOLEAN :
       LET found == IF threw THEN "threw"
                    ELSE IF CacheMatch(AsRequestedKey) THEN "hit" ELSE "miss"
       IN  /\ cacheResults' =
                Append(cacheResults, [op |-> "match", result |-> found])
           /\ IF found = "hit" THEN Return(CachedResponse, attempts, timers)
              ELSE Return(response, attempts, timers)
  /\ UNCHANGED <<config, request, targetUrl, outcomes, cache, served, call, result, handlers>>

\* A cache.put that was left running settles: the entry is written, or the
\* promise rejects (ctx.waitUntil takes it, or .catch logs it).
CachePutSettles ==
  /\ \E put \in puts, stored \in BOOLEAN :
       /\ puts' = puts \ {put}
       /\ cache' = IF stored THEN [cache EXCEPT !.entries = @ \cup {put}]
                   ELSE cache
       /\ cacheResults' =
            Append(cacheResults,
                   [op |-> "put",
                    result |-> IF stored THEN "stored" ELSE "rejected"])
  /\ UNCHANGED <<config, request, targetUrl, pc, attempts, response, timers, inflight,
                 fetches, sleeps, iterations, outcomes, final, cacheOps,
                 served, call, result, handlers>>

\* The handler has returned; a later request for the file arrives at the
\* same worker, which keeps its configuration and its cache.
NextRequest ==
  /\ pc = "done"
  /\ served + 1 < MaxRequests
  /\ request' \in FollowUps
  /\ targetUrl' = TargetOf(request', config)
  /\ served' = served + 1
  /\ pc' = "start"
  /\ attempts' = 0
  /\ response' = Undefined
  /\ timers' = {}
  /\ inflight' = NoFetch
  /\ fetches' = [k \in FetchKinds |-> 0]
  /\ sleeps' = <<>>
  /\ iterations' = 0
  /\ outcomes' = <<>>
  /\ final' = Undefined
  /\ cacheOps' = <<>>
  /\ cacheResults' = <<>>
  /\ UNCHANGED <<config, cache, puts, call, result, handlers>>

Next ==
  \/ HandleRequest
  \/ CacheMatchResolve
  \/ CacheFullMatchResolve
  \/ CacheReprobeResolve
  \/ CachePutSettles
  \/ PrimaryResolve
  \/ HeadRangeResolve
  \/ RedirectResolve
  \/ FetchThrows
  \/ TimeoutFires
  \/ BackoffDone
  \/ TokenResolve
  \/ RetryResolve
  \/ RetryRedirectResolve
  \/ NegotiationThrows
  \/ V2RootResolve
  \/ TokenProxyResolve
  \/ AuthThrows

Spec == Init /\ [][Next]_vars

\* ------------------------------------------------ a worker's later requests
\* A worker that handles MaxRequests requests, one after the other, with
\* the cache the earlier ones left.
\* ------------------------------------------------------- the pure functions
\* The variables of the handler, which a call of a pure function leaves
\* alone.
handlerVars ==
  <<config, request, targetUrl, pc, attempts, response, timers, inflight,
    fetches, sleeps, iterations, outcomes, final, cache, puts, cacheOps,
    cacheResults, served>>

\* transformPath(call.path, call.key) returns.
ApplyTransformPath ==
  /\ call.fn = "transformPath"
  /\ ~result.done
  /\ result' = [done |-> TRUE, path |-> transformPath(call.path, call.key),
                key |-> <<>>, scope |-> <<>>, settings |-> NoSettings, git |-> FALSE, valid |-> FALSE]
  /\ UNCHANGED <<call, handlers, handlerVars>>

\* The path transformPath returned is given to transformPath again, with
\* any key.
Retransform ==
  /\ call.fn = "transformPath"
  /\ result.done
  /\ call.depth < MaxDepth
  /\ \E k \in TransformKeys :
       call' = [fn |-> "transformPath", path |-> result.path, key |-> k,
                depth |-> call.depth + 1, env |-> NoEnv]
  /\ result' = NoResult
  /\ UNCHANGED <<handlers, handlerVars>>

\* The platform detection of handleRequest returns.
ApplyDetectPlatform ==
  /\ call.fn = "DetectPlatform"
  /\ ~result.done
  /\ result' = [done |-> TRUE, path |-> <<>>,
                key |-> DetectPlatform(call.path), scope |-> <<>>,
                settings |-> NoSettings, git |-> FALSE, valid |-> FALSE]
  /\ UNCHANGED <<call, handlers, handlerVars>>

\* getScopeFromUrl(url, effectivePath, platform) returns; effectivePath is
\* url.pathname.replace(/^\/v2/, ''), as handleRequest passes it.
ApplyGetScopeFromUrl ==
  /\ call.fn = "getScopeFromUrl"
  /\ ~result.done
  /\ LET effectivePath ==
           IF call.path[1] = "v2" THEN Tail(call.path) ELSE call.path
     IN  result' = [done |-> TRUE, path |-> <<>>, key |-> <<>>,
                    scope |-> getScopeFromUrl(call.path, effectivePath,
                                              call.key),
                    settings |-> NoSettings, git |-> FALSE, valid |-> FALSE]
  /\ UNCHANGED <<call, handlers, handlerVars>>

\* createConfig(call.env) returns.
ApplyCreateConfig ==
  /\ call.fn = "createConfig"
  /\ ~result.done
  /\ result' = [done |-> TRUE, path |-> <<>>, key |-> <<>>, scope |-> <<>>,
                settings |-> createConfig(call.env), git |-> FALSE, valid |-> FALSE]
  /\ UNCHANGED <<call, handlers, handlerVars>>

\* validateRequest(request, url, config) returns.
ApplyValidateRequest ==
  /\ call.fn = "validateRequest"
  /\ ~result.done
  /\ result' = [NoResult EXCEPT
                  !.done = TRUE,
                  !.valid = validateRequest(request, config).valid]
  /\ UNCHANGED <<call, handlers, handlerVars>>

\* isGitRequest(request, url) returns.
ApplyIsGitRequest ==
  /\ call.fn = "isGitRequest"
  /\ ~result.done
  /\ result' = [NoResult EXCEPT !.done = TRUE, !.git = isGitRequest(request)]
  /\ UNCHANGED <<call, handlers, handlerVars>>

PureInit ==
  /\ call \in PureCalls
  /\ config \in IF call.fn = "validateRequest" THEN ValidationConfigs
                 ELSE RoundTripConfigs
  /\ request \in IF call.fn = "isGitRequest" THEN GitInputs
                  ELSE IF call.fn = "validateRequest" THEN ValidationInputs
                  ELSE {BaseRequest("GET", <<"">>)}
  /\ targetUrl = NoUrl
  /\ pc = "pure"
  /\ attempts = 0
  /\ response = Undefined
  /\ timers = {}
  /\ inflight = NoFetch
  /\ fetches = [k \in FetchKinds |-> 0]
  /\ sleeps = <<>>
  /\ iterations = 0
  /\ outcomes = <<>>
  /\ final = Undefined
  /\ cache = [available |-> FALSE, entries |-> {}]
  /\ puts = {}
  /\ cacheOps = <<>>
  /\ cacheResults = <<>>
  /\ served = 0
  /\ result = NoResult
  /\ handlers = NoHandlers

PureNext ==
  \/ ApplyTransformPath
  \/ Retransform
  \/ ApplyDetectPlatform
  \/ ApplyGetScopeFromUrl
  \/ ApplyCreateConfig
  \/ ApplyIsGitRequest
  \/ ApplyValidateRequest

PureSpec == PureInit /\ [][PureNext]_vars

\* ------------------------------------------------- concurrent invocations
\* Several invocations of handleRequest for the same request run side by
\* side in one worker.  They share caches.default and nothing else: every
\* other variable of handleRequest is local to the invocation.  Each one is
\* suspended at an await: "match" and "match_full" (cache.match), "fetch"
\* (the upstream fetch of a loop iteration), "put" (returned, its cache.put
\* pending) or "done".
soloVars ==
  <<pc, attempts, response, timers, inflight, fetches, sleeps, iterations,
    outcomes, final, puts, cacheOps, cacheResults, served, call, result>>

\* What the upstream answers a plain GET with.
ConcurrentAnswers ==
  {Upstream(200, "", FALSE, TRUE), Upstream(404, "", FALSE, TRUE),
   Upstream(503, "", FALSE, TRUE)}

\* Fault: an invocation that finds a fetch for the same key in flight takes
\* that fetch's answer for its own.
MustFetchUnlessInFlight(cached) ==
  ~cached /\ ~\E g \in Handlers : handlers[g].pc = "fetch"

\* if (!response): no cached response, so the loop runs and fetches.
MustFetch(cached) == ~cached

\* The invocation h goes on after its cache lookup said `cached`.
AfterLookup(h, cached) ==
  IF MustFetch(cached) /\ LoopCondition(0)
  THEN handlers' = [handlers EXCEPT ![h].pc = "fetch",
                                    ![h].missed = ~cached,
                                    ![h].fetches = @ + 1]
  ELSE handlers' = [handlers EXCEPT ![h].pc = "done",
                                    ![h].missed = ~cached,
                                    ![h].status =
                                      IF MustFetch(cached) THEN 500 ELSE 200]

\* handleRequest up to its first await.
ConcurrentEnter ==
  /\ \E h \in Handlers :
       /\ handlers[h].pc = "start"
       /\ IF CacheGuard
          THEN handlers' = [handlers EXCEPT ![h].pc = "match"]
          ELSE AfterLookup(h, FALSE)
  /\ UNCHANGED <<config, request, targetUrl, cache, soloVars>>

\* cache.match(cacheKey) resolves.
ConcurrentMatchResolve ==
  /\ \E h \in Handlers :
       /\ handlers[h].pc = "match"
       /\ IF ~CacheMatch(AsRequestedKey) /\ request.range
          THEN handlers' = [handlers EXCEPT ![h].pc = "match_full"]
          ELSE AfterLookup(h, CacheMatch(AsRequestedKey))
  /\ UNCHANGED <<config, request, targetUrl, cache, soloVars>>

\* cache.match(fullContentKey) resolves.
ConcurrentFullMatchResolve ==
  /\ \E h \in Handlers :
       /\ handlers[h].pc = "match_full"
       /\ AfterLookup(h, CacheMatch(FullContentKey))
  /\ UNCHANGED <<config, request, targetUrl, cache, soloVars>>

\* The upstream answers the fetch of the invocation h.
ConcurrentFetchResolve ==
  /\ \E h \in Handlers, r \in ConcurrentAnswers :
       LET att == handlers[h].attempts
       IN  /\ handlers[h].pc = "fetch"
           /\ IF Ok(r) \/ r.status = 206 \/ IsClientError(r)
              THEN handlers' =
                     [handlers EXCEPT
                        ![h].pc = IF StoreGuard(r) THEN "put" ELSE "done",
                        ![h].status = r.status]
              ELSE IF LoopCondition(att + 1)
              THEN handlers' = [handlers EXCEPT ![h].attempts = att + 1,
                                                ![h].fetches = @ + 1]
              ELSE handlers' = [handlers EXCEPT ![h].attempts = att + 1,
                                                ![h].pc = "done",
                                                ![h].status = r.status]
  /\ UNCHANGED <<config, request, targetUrl, cache, soloVars>>

\* The cache.put that ctx.waitUntil keeps alive settles.
ConcurrentPutSettles ==
  /\ \E h \in Handlers :
       /\ handlers[h].pc = "put"
       /\ handlers' = [handlers EXCEPT ![h].pc = "done"]
       /\ cache' = [cache EXCEPT !.entries =
                      @ \cup {[key |-> StoreKey,
                               by |-> RequestHeaders(request)]}]
  /\ UNCHANGED <<config, request, targetUrl, soloVars>>

\* The same cacheable GET arrives NumHandlers times at a worker whose cache
\* is empty.
ConcurrentInit ==
  /\ config \in RoundTripConfigs
  /\ request \in FollowUps
  /\ targetUrl = TargetOf(request, config)
  /\ pc = "concurrent"
  /\ attempts = 0
  /\ response = Undefined
  /\ timers = {}
  /\ inflight = NoFetch
  /\ fetches = [k \in FetchKinds |-> 0]
  /\ sleeps = <<>>
  /\ iterations = 0
  /\ outcomes = <<>>
  /\ final = Undefined
  /\ cache \in [available : BOOLEAN, entries : {{}}]
  /\ puts = {}
  /\ cacheOps = <<>>
  /\ cacheResults = <<>>
  /\ served = 0
  /\ call = NoCall
  /\ result = NoResult
  /\ handlers = [h \in Handlers |-> Entered]

ConcurrentNext ==
  \/ ConcurrentEnter
  \/ ConcurrentMatchResolve
  \/ ConcurrentFullMatchResolve
  \/ ConcurrentFetchResolve
  \/ ConcurrentPutSettles

ConcurrentSpec == ConcurrentInit /\ [][ConcurrentNext]_vars

\* Every outbound fetch eventually returns, throws or is aborted, every
\* sleep ends and every cache operation settles: a step that can be taken
\* is taken.
LiveSpec == Init /\ [][Next]_vars /\ WF_vars(Next)

RoundTripInit == Start(RoundTripConfigs, RoundTripRequests)

RoundTripNext == Next \/ NextRequest

RoundTripSpec == RoundTripInit /\ [][RoundTripNext]_vars

\* ================================================================= claims
Done == pc = "done"
LastOutcome == outcomes[Len(outcomes)]
IsProxied == Route(request, config).kind = "proxy"
TotalFetches ==
  fetches["primary"] + fetches["head_range"] + fetches["redirect"]
    + fetches["token"] + fetches["auth_retry"] + fetches["auth_redirect"]
    + fetches["v2root"] + fetches["token_proxy"]
\* Sleeps lie between iterations only: one before every iteration but the first.
SleepsBetweenAttempts ==
  Len(sleeps) = IF pc = "sleep" THEN iterations
                ELSE IF iterations = 0 THEN 0 ELSE iterations - 1

\* C1 (as stated): whatever the request, the configuration and the upstream
\* outcomes, the number of retry-loop iterations never exceeds MAX_RETRIES.
C1_AttemptsNeverExceedMaxRetries == iterations <= config.MAX_RETRIES

\* C1 (amended): the number of retry-loop iterations, and of fetches of the
\* target URL they issue, never exceeds MAX_RETRIES when MAX_RETRIES >= 1,
\* and is zero when MAX_RETRIES is negative.
C1_AttemptsBounded ==
  /\ iterations <= (IF config.MAX_RETRIES >= 1 THEN config.MAX_RETRIES ELSE 0)
  /\ attempts <= iterations
  /\ fetches["primary"] = iterations

C1_Witness ==
  /\ Done
  /\ config.MAX_RETRIES = MaxRetriesBound
  /\ iterations = config.MAX_RETRIES

\* C2: backoff is linear and lies between attempts: the k-th sleep is
\* RETRY_DELAY_MS * k, a sleep follows a failed attempt only when a further
\* attempt is permitted, and an upstream answering 503, 503, 200 gives two
\* retries, sleeps of RETRY_DELAY_MS * 1 and * 2, and the 200 to the client.
C2_LinearBackoff ==
  /\ \A k \in 1..Len(sleeps) : sleeps[k] = config.RETRY_DELAY_MS * k
  /\ SleepsBetweenAttempts
  /\ pc = "sleep" => iterations < config.MAX_RETRIES
  /\ (Done /\ [k \in 1..Len(outcomes) |-> outcomes[k].status] = <<503, 503, 200>>)
       => /\ iterations = 3
          /\ sleeps = <<config.RETRY_DELAY_MS, config.RETRY_DELAY_MS * 2>>
          /\ final.status = 200
          /\ final.origin = "upstream"

C2_Witness ==
  /\ Done
  /\ [k \in 1..Len(outcomes) |-> outcomes[k].status] = <<503, 503, 200>>
  /\ Len(sleeps) = 2
  /\ final.status = 200

\* Every permitted attempt (there is at least one) ended in an upstream 5xx
\* or a thrown network error that is no timeout.
Exhausted ==
  /\ Done
  /\ IsProxied
  /\ config.MAX_RETRIES >= 1
  /\ iterations = config.MAX_RETRIES
  /\ Len(outcomes) = iterations
  /\ \A k \in 1..Len(outcomes) :
       /\ outcomes[k].kind = "primary"
       /\ \/ outcomes[k].status >= 500
          \/ outcomes[k].body = "NetworkError"

\* C3 (as stated): when every permitted attempt fails with a 5xx or a
\* network error, the client receives 500 with a message naming the attempt
\* count.
C3_ExhaustionIs500 ==
  Exhausted => final.status = 500 /\ final.n = config.MAX_RETRIES

\* C3 (amended): when every permitted attempt fails, a last attempt that
\* threw gives 500 with "Failed after <MAX_RETRIES> attempts"; a last
\* attempt answered 5xx gives that upstream status with "Upstream server
\* error (<status>)", which names no attempt count.
C3_ExhaustionOutcome ==
  Exhausted =>
    IF LastOutcome.body = "NetworkError"
    THEN /\ final.status = 500
         /\ final.wraps = "Failed after attempts"
         /\ final.n = config.MAX_RETRIES
    ELSE /\ final.status = LastOutcome.status
         /\ final.msg = "Upstream server error"
         /\ final.n = 0

C3_Witness ==
  /\ Exhausted
  /\ iterations >= 2
  /\ LastOutcome.status = 503
  /\ outcomes[1].body = "NetworkError"

\* C4: when the abort timer of the attempt in flight fires, the client
\* receives 408; no further attempt and no backoff sleep follows, however
\* many attempts remain.
C4_TimeoutIs408 ==
  (\E k \in 1..Len(outcomes) : outcomes[k].body = "AbortError")
    => /\ Done
       /\ final.status = 408
       /\ LastOutcome.body = "AbortError"
       /\ Len(sleeps) = iterations - 1

C4_Witness ==
  /\ Done
  /\ final.status = 408
  /\ iterations = 2
  /\ config.MAX_RETRIES > 2

\* C5: an upstream 4xx (other than a 401 on a Docker request) ends the loop
\* on the attempt that received it, is not retried, and reaches the client
\* with the upstream's status.
C5_ClientErrorPassedThrough ==
  \A k \in 1..Len(outcomes) :
    (/\ outcomes[k].kind \in {"primary", "redirect"}
     /\ outcomes[k].status >= 400
     /\ outcomes[k].status <= 499
     /\ ~(isDockerRequest(request) /\ outcomes[k].status = 401))
      => /\ k = Len(outcomes)
         /\ Done
         /\ final.status = outcomes[k].status
         /\ Len(sleeps) = iterations - 1

C5_Witness ==
  /\ Done
  /\ final.status = 404
  /\ iterations = 2
  /\ config.MAX_RETRIES > 2
  /\ LastOutcome.status = 404

\* The inline 401 flow ended in a retry (or its one manual redirect) that
\* was answered 2xx.
RetryWasSuccessful ==
  /\ Len(outcomes) >= 1
  /\ LastOutcome.kind \in {"auth_retry", "auth_redirect"}
  /\ LastOutcome.status >= 200
  /\ LastOutcome.status <= 299

\* C6: a Docker request answered 401 with a parseable challenge, whose
\* anonymous token fetch gives a token and whose Bearer retry (after at most
\* one manual redirect) is 2xx, is answered with that retry's response, not
\* with a 401.
C6_SuccessfulRetryReturned ==
  RetryWasSuccessful
    => /\ Done
       /\ fetches["token"] = 1
       /\ final.status = LastOutcome.status
       /\ final.origin = "upstream"
       /\ final.status # 401

C6_Witness ==
  /\ Done
  /\ RetryWasSuccessful
  /\ LastOutcome.kind = "auth_redirect"
  /\ final.status = 200
  /\ \E k \in 1..Len(outcomes) :
       /\ outcomes[k].kind = "primary"
       /\ outcomes[k].status = 401
       /\ outcomes[k].www = "valid"

\* C7: a fetch of a Docker redirect's Location never carries an
\* Authorization header, on the first pass (client's Authorization) and on
\* the token-authenticated retry (Bearer token) alike.
C7_NoAuthorizationOnRedirect ==
  inflight.kind \in {"redirect", "auth_redirect"}
    => inflight.authorization = ""

C7_Witness ==
  /\ pc = "auth_redirect"
  /\ request.authorization
  /\ fetches["redirect"] >= 1
  /\ inflight.authorization = ""

\* A Docker request was answered 401 by the upstream and the inline
\* negotiation did not end in a successful retry.
NegotiationUnresolved ==
  /\ Done
  /\ isDockerRequest(request)
  /\ \E k \in 1..Len(outcomes) :
       outcomes[k].kind \in {"primary", "redirect"} /\ outcomes[k].status = 401
  /\ ~RetryWasSuccessful

\* C8: a Docker request answered 401 whose inline negotiation does not end
\* in a successful retry is answered 401 with WWW-Authenticate: Bearer
\* realm="https://<host>/v2/auth",service="Xget".
C8_UnresolvedChallengeAdvertisesProxyRealm ==
  NegotiationUnresolved => final.status = 401 /\ final.www = "proxy"

\* The negotiation's last fetch, of kind `tokenKind` for the token and
\* `challengeKinds` for the challenge, failed: an unparseable challenge, a
\* token fetch that threw, a token answer that is not OK or has no token.
NegotiationFailedAt(challengeKinds, tokenKind) ==
  /\ Len(outcomes) >= 1
  /\ \/ /\ LastOutcome.kind \in challengeKinds
        /\ LastOutcome.status = 401
        /\ LastOutcome.www = "invalid"
     \/ /\ LastOutcome.kind = tokenKind
        /\ \/ LastOutcome.body = "NetworkError"
           \/ LastOutcome.status >= 300
           \/ LastOutcome.body \in {"notoken", "garbage"}

InlineNegotiationFailed ==
  isDockerRequest(request) /\ NegotiationFailedAt({"primary", "redirect"}, "token")

AuthEndpointNegotiationFailed == NegotiationFailedAt({"v2root"}, "token_proxy")

BadScope(scope) ==
  \/ ~scope.present
  \/ scope.parts[1] # <<"repository">>
  \/ Len(scope.parts) < 3
  \/ ~\E reg \in ContainerRegistries :
        StartsWithSegs(scope.parts[2], <<"cr", reg>>)

IsAuthRequest == request.path = <<"v2", "auth">>

\* C10 (as stated): a /v2/auth request with such a scope is answered 400 and
\* no outbound fetch is issued for it.
C10_BadScopeIs400 ==
  (IsAuthRequest /\ BadScope(request.scope))
    => /\ TotalFetches = 0
       /\ Done => final.status = 400

\* C10 (amended): a /v2/auth request with such a scope and a method among
\* GET, HEAD, POST, PUT, PATCH, DELETE is answered 400 (any other method
\* 405), and no outbound fetch is issued for it.
C10_BadScopeRejected ==
  (IsAuthRequest /\ BadScope(request.scope))
    => /\ TotalFetches = 0
       /\ pc \in {"start", "done"}
       /\ Done =>
            final.status =
              IF request.method \in {"GET", "HEAD", "POST", "PUT", "PATCH", "DELETE"}
              THEN 400 ELSE 405

C10_Witness ==
  /\ Done
  /\ IsAuthRequest
  /\ request.method = "GET"
  /\ request.scope.present
  /\ Len(request.scope.parts) = 2
  /\ final.status = 400


\* The /v2/auth request is well formed: repository:<prefix>/<repo>:<actions>
\* with <prefix> the prefix of a registered container registry.
WellFormedAuthRequest ==
  /\ IsAuthRequest
  /\ request.method \in {"GET", "HEAD", "POST", "PUT", "PATCH", "DELETE"}
  /\ ~BadScope(request.scope)

\* C11: for a well-formed /v2/auth request whose registry root answered 401
\* with a valid challenge, exactly one token request is sent, to the realm
\* of the challenge, with scope repository:<repo>:<actions> (the registry
\* prefix removed, the actions unchanged), and it carries an Authorization
\* header if and only if the client sent one.
C11_TokenRequestAtAuthEndpoint ==
  (/\ WellFormedAuthRequest
   /\ Len(outcomes) >= 1
   /\ outcomes[1].kind = "v2root"
   /\ outcomes[1].status = 401
   /\ outcomes[1].www = "valid")
    => /\ fetches["token_proxy"] = 1
       /\ fetches["token"] = 0
       /\ pc = "token_proxy" =>
            /\ inflight.url = [origin |-> <<"realm">>, path |-> <<>>]
            /\ inflight.method = "GET"
            /\ Len(inflight.scope) = Len(request.scope.parts)
            /\ inflight.scope[1] = <<"repository">>
            /\ \E reg \in ContainerRegistries :
                 <<"cr", reg>> \o inflight.scope[2] = request.scope.parts[2]
            /\ \A i \in 3..Len(inflight.scope) :
                 inflight.scope[i] = request.scope.parts[i]
            /\ (inflight.authorization # "") <=> request.authorization

C11_Witness ==
  /\ pc = "token_proxy"
  /\ request.authorization
  /\ inflight.authorization = "client"
  /\ request.scope.parts[2] = <<"cr", "quay", "org", "image">>
  /\ inflight.scope = << <<"repository">>, <<"org", "image">>, <<"pull">>,
                         <<"push">> >>

\* The handler awaits the cache.
AtCache == pc \in {"cache_match", "cache_match_full", "cache_reprobe"}

\* The request is a protocol request or carries a sensitive header.
BypassesCache ==
  \/ isGitRequest(request) \/ isGitLFSRequest(request)
  \/ isDockerRequest(request) \/ isAIInferenceRequest(request)
  \/ isHuggingFaceAPIRequest(request)
  \/ request.authorization \/ request.cookie \/ request.proxyAuthorization

\* C12: for a protocol request, and for a request that carries an
\* Authorization, Cookie or Proxy-Authorization header, the handler makes no
\* cache lookup and no cache write at any point.
C12_NoCacheForProtocolOrSensitive ==
  BypassesCache => cacheOps = <<>> /\ puts = {} /\ ~AtCache

C12_Witness ==
  /\ Done
  /\ cache.available
  /\ request.cookie
  /\ ~request.authorization
  /\ request.method = "GET"
  /\ final.status = 200
  /\ cacheOps = <<>>

\* The cache.put calls among the cache operations ops.
PutOps(ops) == {i \in DOMAIN ops : ops[i].op = "put"}

\* C13: the handler calls cache.put only for a GET whose answer, as it leaves
\* the retry loop, came from upstream with status exactly 200: never for a
\* HEAD, for a 206, for an error answer or for an answer served from the
\* cache.
C13_CacheWriteOnlyForGet200 ==
  [][PutOps(cacheOps') # PutOps(cacheOps) /\ PutOps(cacheOps') # {}
       => /\ request.method = "GET"
          /\ response'.status = 200
          /\ response'.origin = "upstream"
          /\ \A i \in DOMAIN cacheResults' : cacheResults'[i].result # "hit"
          /\ Cardinality(PutOps(cacheOps')) = 1]_vars

C13_Witness ==
  /\ Done
  /\ request.method = "GET"
  /\ ~request.range
  /\ PutOps(cacheOps) # {}
  /\ final.status = 200
  /\ final.origin = "upstream"

\* C14: the key of every cache.put is the full-content key (the request's
\* headers without Range) when the request has a Range header, and otherwise
\* the as-requested key, the one the lookup of the same request probes
\* (target URL, GET, the request's headers).
C14_StoreKeyIsLookupKey ==
  \A i \in PutOps(cacheOps) :
    cacheOps[i].key =
      IF request.range
      THEN CacheKey(targetUrl, WithoutRange(RequestHeaders(request)))
      ELSE CacheKey(targetUrl, RequestHeaders(request))

\* The cache holds the answer to an earlier GET for the resource of the
\* current request, whose headers other than Range were the same, and the
\* write had completed before the current request arrived.
StoredByEarlierRequest ==
  /\ served = 1
  /\ \E entry \in cache.entries :
       /\ entry.key.url = targetUrl
       /\ WithoutRange(entry.by) = WithoutRange(RequestHeaders(request))
  /\ \A i \in DOMAIN cacheResults :
       cacheResults[i].result \notin {"stored", "threw"}

\* C15: with a store that compares URL and headers and whose writes have
\* completed, a Range request that follows a stored GET 200 for the same
\* resource with the same other headers is answered from the cache, without
\* any upstream fetch.
C15_RangeAfterStoreServedFromCache ==
  Done /\ request.range /\ StoredByEarlierRequest
    => /\ final.origin = "cache"
       /\ \A kind \in FetchKinds : fetches[kind] = 0

\* A cache call of the current request failed: a cache.match threw, the
\* cache.put threw at once, or its promise rejected.
CacheFailed ==
  \/ \E i \in DOMAIN cacheResults :
       cacheResults[i].result \in {"threw", "rejected"}
  \/ \E i \in DOMAIN cacheOps : cacheOps[i].via = "threw"

\* The step is a cache call that fails.
MatchThrows ==
  /\ pc \in {"cache_match", "cache_match_full", "cache_reprobe"}
  /\ Len(cacheResults') = Len(cacheResults) + 1
  /\ cacheResults'[Len(cacheResults')].result = "threw"

PutThrows ==
  \E i \in PutOps(cacheOps') \ PutOps(cacheOps) : cacheOps'[i].via = "threw"

PutRejects ==
  /\ Len(cacheResults') = Len(cacheResults) + 1
  /\ cacheResults'[Len(cacheResults')].result = "rejected"

\* C16: when a cache call fails (the lookup or the full-content lookup
\* throws, the put throws or rejects, the probe after the put throws), the
\* client receives the status the fetch alone produces, as on a miss or
\* without a store, and never an error caused by the cache: a lookup that
\* throws starts the retry loop from scratch, a put that throws and a probe
\* after the put that throws return the upstream 200, a put that rejects
\* touches nothing, and no such request ends in the top-level error.
C16_CacheFailureKeepsStatus ==
  /\ [](Done /\ CacheFailed => final.msg # "Internal Server Error")
  /\ [][/\ MatchThrows /\ pc # "cache_reprobe"
             => IF LoopCondition(0)
                THEN /\ pc' = "primary"
                     /\ attempts' = 0
                     /\ response' = Undefined
                     /\ final' = Undefined
                ELSE /\ pc' = "done"
                     /\ final' = Finalize(PostLoop(Undefined))
        /\ MatchThrows /\ pc = "cache_reprobe"
             => /\ pc' = "done"
                /\ final' = Finalize(response)
                /\ final'.status = 200
                /\ final'.origin = "upstream"
        /\ PutThrows
             => /\ pc' = "done"
                /\ final'.status = 200
                /\ final'.origin = "upstream"
        /\ PutRejects => UNCHANGED <<pc, response, final>>]_vars

C16_Witness ==
  /\ Done
  /\ request.range
  /\ cacheOps # <<>>
  /\ \A i \in DOMAIN cacheOps : cacheOps[i].via # "threw"
  /\ \E i, j \in DOMAIN cacheResults :
       /\ i < j
       /\ cacheResults[i] = [op |-> "match", result |-> "threw"]
       /\ cacheResults[j] = [op |-> "match", result |-> "threw"]
  /\ final.status = 200
  /\ final.origin = "upstream"

\* The path prefix of key shorter is a proper prefix of that of key longer.
ProperPrefixPair(shorter, longer) ==
  /\ Len(ExpectedPrefix(shorter)) < Len(ExpectedPrefix(longer))
  /\ SubSeq(ExpectedPrefix(longer), 1, Len(ExpectedPrefix(shorter)))
       = ExpectedPrefix(shorter)

\* C17: when the path prefix of one registered key is a proper prefix of
\* that of another (homebrew and homebrew-api, pypi and pypi-files, conda
\* and conda-community), a path that starts with the longer prefix resolves
\* to the longer key.
C17_LongerPrefixWins ==
  result.done /\ call.fn = "DetectPlatform"
    => \A shorter, longer \in PLATFORMS :
         ProperPrefixPair(shorter, longer)
           /\ StartsWithSegs(call.path, ExpectedPrefix(longer))
         => result.key = longer

C17_Witness ==
  /\ result.done
  /\ call.fn = "DetectPlatform"
  /\ call.path = <<"pypi", "files", "packages", "x.whl">>
  /\ ProperPrefixPair(<<"pypi">>, <<"pypi", "files">>)
  /\ ProperPrefixPair(<<"homebrew">>, <<"homebrew", "api">>)
  /\ ProperPrefixPair(<<"conda">>, <<"conda", "community">>)
  /\ result.key = <<"pypi", "files">>

\* The path resolves to no key of the table: it starts with the prefix of
\* no registered key and its first segment spells none.
ResolvesToNoKey(path) ==
  /\ \A k \in PLATFORMS : ~StartsWithSegs(path, ExpectedPrefix(k))
  /\ \A k \in PLATFORMS : KeyString(k) # path[1]

\* C18: a request whose path is / or resolves to no key of the platform
\* table, by prefix or by first segment, is answered with the 302 redirect to
\* the landing page and no upstream fetch is issued for it.  Stated for the
\* requests that pass validation and are not container-registry requests,
\* which the handler answers before it looks for the platform.
C18_NoKeyRedirectsHome ==
  (/\ validateRequest(request, config).valid
   /\ ~isDockerRequest(request)
   /\ (request.path = <<"">> \/ ResolvesToNoKey(request.path)))
    => /\ \A kind \in FetchKinds : fetches[kind] = 0
       /\ Done => final.status = 302 /\ final.msg = "home" /\ final.loc

\* The rewrite as specified: the prefix of a registered key is replaced by
\* '/', then the rules of crates and of jenkins apply to the remainder; the
\* path of an unregistered key is left as it is.
SpecifiedRewrite(path, key) ==
  IF key \notin PLATFORMS THEN path
  ELSE LET rest == IF Len(path) > Len(key) /\ SubSeq(path, 1, Len(key)) = key
                   THEN SubSeq(path, Len(key) + 1, Len(path))
                   ELSE path
       IN  CASE key = <<"crates">> ->
                  IF rest = <<"">> \/ rest[1] \in QuerySegments
                  THEN <<"api", "v1", "crates" \o rest[1]>> \o Tail(rest)
                  ELSE <<"api", "v1", "crates">> \o rest
             [] key = <<"jenkins">> ->
                  IF rest \in {<<"update-center.json">>,
                               <<"update-center.actual.json">>}
                  THEN <<"current">> \o rest
                  ELSE IF /\ Len(rest) > 1
                          /\ rest[1] \in {"experimental", "download", "current"}
                  THEN rest
                  ELSE <<"current">> \o rest
             [] OTHER -> rest

\* The four vectors of the specification.
SpecVectors ==
  {[path |-> <<"crates", "serde", "1.0.0", "download">>, key |-> <<"crates">>,
    to |-> <<"api", "v1", "crates", "serde", "1.0.0", "download">>],
   [path |-> <<"crates", "?q=tokio">>, key |-> <<"crates">>,
    to |-> <<"api", "v1", "crates?q=tokio">>],
   [path |-> <<"jenkins", "update-center.json">>, key |-> <<"jenkins">>,
    to |-> <<"current", "update-center.json">>],
   [path |-> <<"unknown", "x">>, key |-> <<"missing", "key">>,
    to |-> <<"unknown", "x">>]}

\* C19: transformPath(path, key) is the specified rewrite: the key's prefix
\* is replaced by '/', crates and jenkins remainders are rewritten by their
\* rules, and for an unregistered key the path is returned unchanged; the
\* four vectors of the specification come out as listed.
C19_TransformPathIsSpecifiedRewrite ==
  result.done /\ call.fn = "transformPath"
    => /\ result.path = SpecifiedRewrite(call.path, call.key)
       /\ \A v \in SpecVectors :
            call.path = v.path /\ call.key = v.key => result.path = v.to

\* transformPath was given a path it had returned, with a registered key
\* whose prefix the path does not start with, and has returned.
Retransformed ==
  /\ result.done
  /\ call.fn = "transformPath"
  /\ call.depth >= 1
  /\ call.key \in PLATFORMS
  /\ ~(/\ Len(call.path) > Len(call.key)
       /\ SubSeq(call.path, 1, Len(call.key)) = call.key)

\* C20 as stated: for every registered key K and every already-transformed
\* path p that does not start with K's prefix, transformPath(p, K) = p.
C20_RetransformIsNoOp == Retransformed => result.path = call.path

\* C20: for every registered key K other than crates and jenkins and every
\* already-transformed path p that does not start with K's prefix,
\* transformPath(p, K) = p.  With crates p is never kept: it gets
\* /api/v1/crates in front once more.  With jenkins p is kept exactly when it
\* is under /experimental/, /download/ or /current/; otherwise it gets
\* /current in front.
C20_RetransformIsNoOpExceptCratesJenkins ==
  Retransformed =>
    IF call.key = <<"crates">>
    THEN /\ result.path # call.path
         /\ SubSeq(result.path, 1, 2) = <<"api", "v1">>
    ELSE IF call.key = <<"jenkins">>
    THEN IF /\ Len(call.path) > 1
            /\ call.path[1] \in {"experimental", "download", "current"}
         THEN result.path = call.path
         ELSE result.path = <<"current">> \o call.path
    ELSE result.path = call.path

C20_Witness ==
  /\ Retransformed
  /\ call.key = <<"crates">>
  /\ call.path = <<"api", "v1", "crates", "serde">>
  /\ result.path = <<"api", "v1", "crates", "api", "v1", "crates", "serde">>

\* getScopeFromUrl has returned for the path call.path and the platform
\* call.key.
ScopeDerived == result.done /\ call.fn = "getScopeFromUrl"

\* call.path is /v2/<prefix of call.key>/<repo>/<suffix>..., its first
\* suffix segment being the i-th, and has no _catalog segment.
RepoPathForm(i) ==
  /\ call.path[1] = "v2"
  /\ i > Len(call.key) + 2
  /\ SubSeq(call.path, 2, Len(call.key) + 1) = call.key
  /\ call.path[i] \in {"manifests", "blobs", "tags", "referrers"}
  /\ \A j \in (Len(call.key) + 2)..(i - 1) :
       call.path[j] \notin {"manifests", "blobs", "tags", "referrers"}
  /\ \A j \in DOMAIN call.path : call.path[j] # "_catalog"

\* C21: a path with a _catalog segment yields registry:catalog:*; a path
\* /v2/<platformPrefix>/<repo>/(manifests|blobs|tags|referrers)/... yields
\* repository:<repo>:pull, <repo> being everything before the first such
\* segment; for cr-docker a repo name of one segment becomes library/<name>.
C21_ScopeDerivation ==
  ScopeDerived =>
    /\ (\E j \in DOMAIN call.path : call.path[j] = "_catalog")
         => result.scope = << <<"registry">>, <<"catalog">>, <<"*">> >>
    /\ \A i \in DOMAIN call.path :
         RepoPathForm(i) =>
           LET repo == SubSeq(call.path, Len(call.key) + 2, i - 1)
           IN  result.scope =
                 << <<"repository">>,
                    IF call.key = <<"cr", "docker">> /\ Len(repo) = 1
                    THEN <<"library">> \o repo ELSE repo,
                    <<"pull">> >>

C21_Witness ==
  /\ ScopeDerived
  /\ call.key = <<"cr", "docker">>
  /\ call.path = <<"v2", "cr", "docker", "ubuntu", "manifests", "latest">>
  /\ RepoPathForm(5)
  /\ result.scope = << <<"repository">>, <<"library", "ubuntu">>, <<"pull">> >>

\* C22: every response handleRequest returns, success or error, cached or
\* fresh, to a protocol request or a plain one, the /v2/auth responses and
\* the Docker 401 included, carries the security headers.
C22_AllResponsesCarrySecurityHeaders == Done => final.sec

\* C23: the response handleRequest returns carries X-Performance-Metrics if
\* and only if the request is not a protocol request (none of isGit,
\* isGitLFS, isDocker, isAI, isHF holds), on every exit path.
C23_PerformanceHeaderIffNotProtocol ==
  Done =>
    (final.perf <=>
       ~(\/ isGitRequest(request) \/ isGitLFSRequest(request)
         \/ isDockerRequest(request) \/ isAIInferenceRequest(request)
         \/ isHuggingFaceAPIRequest(request)))

C23_Witness ==
  /\ Done
  /\ request.path = FilePath
  /\ final.status = 500
  /\ final.origin = "proxy"
  /\ final.perf
  /\ ~isGitRequest(request)
  /\ ~isDockerRequest(request)

\* ===================================================================== C24
Configured == call.fn = "createConfig" /\ result.done

\* The string is a decimal integer as parseInt reads one.
ParsesAsInteger(v) == v.set /\ ~parseInt(v.str).nan

\* C24: createConfig yields, for each of the five integer settings, the
\* integer parsed from the environment string whenever the string parses as
\* an integer, and the default when the variable is absent or its string
\* does not parse.
C24_ParsedIntegerOrDefault ==
  Configured =>
    \A s \in Settings :
      IF ParsesAsInteger(call.env[s])
      THEN result.settings[s] = parseInt(call.env[s].str).n
      ELSE result.settings[s] = Defaults[s]
\* ===================================================================== C25
\* The invocations that wait for an upstream answer.
Fetching == {h \in Handlers : handlers[h].pc = "fetch"}

\* C25: there is no per-key coalescing of fetches: every one of the
\* concurrent identical cacheable requests that misses the cache issues an
\* upstream fetch of its own, whatever the other invocations are doing.
C25_EveryMissFetches ==
  \A h \in Handlers :
    /\ handlers[h].missed /\ handlers[h].pc \in {"fetch", "put", "done"}
         => handlers[h].fetches >= 1
    /\ handlers[h].pc = "fetch"
         => handlers[h].fetches = handlers[h].attempts + 1

\* All the invocations have missed the cache and all their fetches, for the
\* one cache key, are in flight at the same time.
C25_Witness ==
  /\ cache.available
  /\ cache.entries = {}
  /\ Fetching = Handlers
  /\ \A h \in Handlers : handlers[h].missed /\ handlers[h].fetches = 1
\* ===================================================================== C26
\* An exception reached the top-level catch: a fetch of handleDockerAuth
\* rejected, or the registry's challenge could not be parsed.
AuthFetchRejected ==
  /\ outcomes # <<>>
  /\ LastOutcome.kind \in {"v2root", "token_proxy"}
  /\ LastOutcome.status = 0

ChallengeUnparseable ==
  /\ outcomes # <<>>
  /\ LastOutcome.kind = "v2root"
  /\ LastOutcome.status = 401
  /\ LastOutcome.www = "invalid"

FurtherAttempt == Len(sleeps') > Len(sleeps)

\* C27: the retry loop goes on to a further attempt only after an upstream
\* 5xx or a thrown network error that is no timeout; any other status, a
\* 3xx without Location on a Docker request among them, ends the loop
\* without a backoff sleep.
C27_RetryOnlyAfter5xxOrNetworkError ==
  [][FurtherAttempt =>
       /\ outcomes' # <<>>
       /\ LET last == outcomes'[Len(outcomes')]
          IN  \/ last.status >= 500
              \/ last.status = 0 /\ last.body = "NetworkError"]_vars
\* ===================================================================== C28
NoCatalog == \A j \in DOMAIN call.path : call.path[j] # "_catalog"

\* call.path is /v2/<prefix of call.key>/<rest>, <rest> having at least one
\* segment.
UnderPrefix ==
  /\ call.path[1] = "v2"
  /\ Len(call.path) > Len(call.key) + 1
  /\ SubSeq(call.path, 2, Len(call.key) + 1) = call.key

\* What follows the prefix, and whether one of its segments is a suffix.
Rest == SubSeq(call.path, Len(call.key) + 2, Len(call.path))

HasSuffix ==
  \E i \in DOMAIN Rest :
    Rest[i] \in {"manifests", "blobs", "tags", "referrers"}

BodyRewritten == Done /\ final.origin = "upstream" /\ final.body = "rewritten"

\* C29: the body of a PyPI page is rewritten only when the request is not a
\* protocol request and the upstream status is exactly 200; the body of a
\* protocol response and of a 206 is passed on unmodified.
C29_RewriteOnlyPlain200 ==
  BodyRewritten => ~IsProtocol(request) /\ final.status = 200
\* ===================================================================== C30
GitClassified == result.done /\ call.fn = "isGitRequest"

\* C30: isGitRequest is the disjunction of its four conditions: the path
\* ends with /info/refs, /git-upload-pack or /git-receive-pack, or the
\* User-Agent is git's, or the `service` parameter is git-upload-pack or
\* git-receive-pack, or the Content-Type is a git pack media type, also
\* when a `service` parameter with another value comes with such a
\* Content-Type.
C30_IsGitIsDisjunction ==
  GitClassified =>
    (result.git <=>
       \/ EndsWithSegs(request.path, <<"info", "refs">>)
       \/ EndsWithSegs(request.path, <<"git-upload-pack">>)
       \/ EndsWithSegs(request.path, <<"git-receive-pack">>)
       \/ request.userAgent \in GitUserAgents
       \/ request.service \in {"git-upload-pack", "git-receive-pack"}
       \/ request.contentType \in GitPackTypes)
\* ===================================================================== C31
\* The k-th fetch outcome is a successful answer to the HEAD fetch of the
\* target that names no Content-Length.
HeadWithoutLength(k) ==
  /\ request.method = "HEAD"
  /\ outcomes[k].kind = "primary"
  /\ outcomes[k].status >= 200 /\ outcomes[k].status <= 299
  /\ ~outcomes[k].cl

\* The follow-up GET has been answered and the handler has returned.
FollowUpAnswered ==
  /\ Done
  /\ Len(outcomes) >= 2
  /\ LastOutcome.kind = "head_range"
  /\ LastOutcome.status # 0

\* C31: the follow-up GET with Range: bytes=0-0 is issued exactly when the
\* upstream answer to a HEAD is successful and has no Content-Length, at
\* most once per attempt; a 206 with a Content-Range total or another 2xx
\* with a Content-Length gives the client a bodyless response with the
\* HEAD answer's status and the recovered Content-Length, anything else
\* leaves the HEAD answer as it was.
C31_HeadFollowUp ==
  /\ pc = "head_range"
       => request.method = "HEAD" /\ Ok(response) /\ ~response.cl
  /\ fetches["head_range"] > 0 => request.method = "HEAD"
  /\ fetches["head_range"] <= iterations
  /\ \A k \in DOMAIN outcomes :
       HeadWithoutLength(k) =>
         IF k = Len(outcomes) THEN pc = "head_range"
         ELSE outcomes[k + 1].kind = "head_range"
  /\ \A k \in DOMAIN outcomes :
       outcomes[k].kind = "head_range" => k > 1 /\ HeadWithoutLength(k - 1)
  /\ FollowUpAnswered =>
       LET head == outcomes[Len(outcomes) - 1]
           rr == LastOutcome
       IN  /\ final.status = head.status
           /\ final.origin = "upstream"
           /\ IF \/ rr.status = 206 /\ rr.cl
                 \/ rr.status # 206 /\ rr.status >= 200 /\ rr.status <= 299
                      /\ rr.cl
              THEN final.cl /\ final.body = ""
              ELSE ~final.cl /\ final.body = head.body

C31_Witness ==
  /\ FollowUpAnswered
  /\ LastOutcome.status = 206
  /\ LastOutcome.cl
  /\ final.cl
  /\ final.body = ""
  /\ final.status = 200
\* ===================================================================== C32
Validated == result.done /\ call.fn = "validateRequest"

\* The request as a plain client would send it: the same method and path,
\* no protocol marker.
AsPlain == [request EXCEPT !.userAgent = ""]

TokenRequested == pc = "token" /\ inflight.kind = "token"

\* C33: the token request of the inline Docker 401 flow carries no
\* Authorization header, whether or not the client sent one; inside the
\* retry loop the client's Authorization goes to the registry only.
C33_TokenRequestWithoutCredentials ==
  /\ TokenRequested => inflight.authorization = ""
  /\ inflight.authorization = "client"
       /\ inflight.kind \notin {"v2root", "token_proxy"}
       => inflight.url = targetUrl

C33_Witness ==
  /\ TokenRequested
  /\ request.authorization
  /\ inflight.authorization = ""
  /\ inflight.url = [origin |-> <<"realm">>, path |-> <<>>]
\* ===================================================================== C34
\* C34: within one request at most one attempt timer is armed at any time:
\* the timer of an attempt is cleared when the attempt completes, with a
\* response or with a thrown network error, before the next one arms its
\* own.
C34_AtMostOneTimerArmed ==
  /\ Cardinality(timers) <= 1
  /\ pc = "sleep" => timers = {}
\* ===================================================================== C35
\* The handler is inside the retry loop: it awaits a fetch of the loop or
\* the backoff sleep.
InLoop ==
  pc \in {"primary", "head_range", "redirect", "token", "auth_retry",
          "auth_redirect", "sleep"}

\* C35: a request that enters the retry loop eventually leaves it and a
\* response is returned, once; the loop cannot run forever because the
\* n-th iteration runs with attempts = n - 1 (n during the sleep that
\* follows it), which the loop condition bounds by MAX_RETRIES.
C35_LoopTerminates ==
  /\ [](InLoop =>
         /\ attempts = IF pc = "sleep" THEN iterations ELSE iterations - 1
         /\ attempts < config.MAX_RETRIES)
  /\ [](InLoop => <>(Done /\ final # Undefined))
  /\ [][Done => pc' = pc /\ final' = final]_vars

C35_Witness ==
  /\ Done
  /\ final # Undefined
  /\ iterations = config.MAX_RETRIES
  /\ iterations >= 2
  /\ attempts = iterations
\* ===================================================================== C36
\* C36: whenever a fetch of the retry loop is in flight (the fetch of the
\* target, the follow-up GET of a HEAD, the fetch of a Docker redirect's
\* Location, the token fetch, the retry with the token) the abort timer
\* of its signal is armed.
C36_EveryFetchHasArmedTimer ==
  pc \in {"primary", "head_range", "redirect", "token", "auth_retry",
          "auth_redirect"}
    => inflight.signal \in timers
\* ===================================================================== C37
\* The request is valid, carries no Docker header, and its path is the
\* prefix of a registered platform that is no container registry followed
\* by a resource path.
PlainPlatformRequest ==
  /\ validateRequest(request, config).valid
  /\ request.userAgent \notin DockerUserAgents
  /\ request.accept \notin DockerManifestTypes \cup DockerLayerTypes
  /\ request.contentType \notin DockerManifestTypes
  /\ \E key \in PLATFORMS :
       /\ ~IsRegistryKey(key)
       /\ StartsWithSegs(request.path, ExpectedPrefix(key))
       /\ request.path # ExpectedPrefix(key) \o <<"">>

\* C37: such a request is forwarded to the platform's origin; it is never
\* answered 400 "container registry requests must use /cr/ prefix",
\* whatever segments (a v2 one, as in /ip/cohere/v2/chat) its resource
\* path has.
C37_PlatformRequestIsForwarded ==
  Done /\ PlainPlatformRequest =>
    /\ final.msg # "container registry requests must use /cr/ prefix"
    /\ IsUrl(targetUrl)
    /\ config.MAX_RETRIES >= 1 => fetches["primary"] >= 1
\* ===================================================================== C38
\* The 401 branch of the loop has been entered: the registry answered a
\* Docker request's fetch with 401.
ChallengeSeen ==
  /\ isDockerRequest(request)
  /\ \E k \in DOMAIN outcomes :
       outcomes[k].kind \in {"primary", "redirect"} /\ outcomes[k].status = 401

\* C38: within one request the inline Docker flow fetches at most one
\* token and retries with a token at most once, however many attempts
\* came before the 401; once the 401 branch is entered the loop makes no
\* further attempt.
C38_OneTokenOneRetry ==
  /\ [](/\ fetches["token"] <= 1
        /\ fetches["auth_retry"] <= 1
        /\ fetches["auth_redirect"] <= 1
        /\ fetches["auth_retry"] <= fetches["token"])
  /\ [][ChallengeSeen =>
          /\ iterations' = iterations
          /\ sleeps' = sleeps
          /\ fetches'["primary"] = fetches["primary"]]_vars

C38_Witness ==
  /\ Done
  /\ ChallengeSeen
  /\ iterations >= 2
  /\ iterations < config.MAX_RETRIES
  /\ fetches["token"] = 1
  /\ fetches["auth_retry"] = 1
\* ===================================================================== C39
\* How the cache.match calls of the request ended, in order.
MatchResults == SelectSeq(cacheResults, LAMBDA e : e.op = "match")

\* The lookup hit: the probe of the as-requested key did, or, for a
\* request with Range that missed there, the probe of the full-content
\* key.
LookupHit ==
  /\ MatchResults # <<>>
  /\ \/ MatchResults[1].result = "hit"
     \/ /\ request.range
        /\ Len(MatchResults) >= 2
        /\ MatchResults[1].result = "miss"
        /\ MatchResults[2].result = "hit"

\* C39: on a cache hit the handler issues no upstream fetch and no cache
\* write for the request, and returns the cached entry with the
\* performance and security headers added.
C39_CacheHitTouchesNothing ==
  LookupHit =>
    /\ Done
    /\ TotalFetches = 0
    /\ iterations = 0
    /\ \A k \in DOMAIN cacheOps : cacheOps[k].op # "put"
    /\ final.origin = "cache"
    /\ final.status = 200
    /\ final.body = "data"
    /\ final.sec /\ final.perf

C39_Witness ==
  /\ LookupHit
  /\ request.range
  /\ Len(MatchResults) = 2
  /\ final.origin = "cache"
  /\ TotalFetches = 0
\* ===================================================================== C40
\* The request is GET /crates/?q=<query>.
CrateSearch ==
  /\ request.method = "GET"
  /\ request.path = SearchPath
  /\ request.search \in QuerySegments

\* C40: a GET request to /crates/?q=<query> is forwarded upstream to
\* https://crates.io/api/v1/crates?q=<query>; it is not answered with the
\* redirect to the landing page.
C40_SearchIsForwarded ==
  Done /\ CrateSearch =>
    /\ final.status # 302
    /\ targetUrl = [origin |-> <<"crates">>,
                    path |-> <<"api", "v1", "crates" \o request.search>>]
    /\ config.MAX_RETRIES >= 1 => fetches["primary"] >= 1
====
